---- MODULE Spec2Model ----
(***************************************************************************)
(* Model of the Xformed numeric core: the note timeline (melody-core),     *)
(* the synthesis engine (melody-synth) and the feature extractor           *)
(* (audio-features).                                                       *)
(*                                                                         *)
(* Number representation.                                                  *)
(*   - Times (f32 seconds in the source) are integers in microseconds.     *)
(*   - swing / humanize (f32) are integers in thousandths.                 *)
(*   - BPM (f32) is an integer in thousandths of a beat per minute.        *)
(*   - rand_hash's f32 result is an integer in units of 2^-16.             *)
(*   - Audio samples handled by normalize_soft are binary floating-point   *)
(*     numbers with MantBits bits of precision (f32 has 24), written as    *)
(*     integer multiples of 2^-FracBits; every arithmetic result is        *)
(*     rounded to nearest, ties to even, as IEEE-754 does.                 *)
(*   - u64 values are bit vectors [0..63 -> {0,1}].                        *)
(*   - Samples handed to analyze_mono are integers in hundredths; FFT      *)
(*     magnitudes are integers in units of 1/MagUnit; Hz, BPM, rates,      *)
(*     ratios and entropies of the report are integers in thousandths;     *)
(*     ln and exp are computed in fixed point to that precision.           *)
(***************************************************************************)
EXTENDS Integers, Sequences, FiniteSets, TLC

(***************************************************************************)
(* Bounds of the model.                                                    *)
(***************************************************************************)
\* longest timeline built by push
MaxNotes == 3
\* longest sample buffer handed to normalize_soft
MaxBuf == 3
\* longest sample buffer handed to analyze_mono
MaxMono == 4
\* length of the longer, periodic buffers handed to analyze_mono
MaxLong == 12
\* longest pattern such a buffer repeats
MaxPattern == 3
\* bits of precision of the modelled sample format
MantBits == 6
\* the longest buffer with F0 windows, in blocks of 256 samples
MaxBlocks == 5

(***************************************************************************)
(* Generic helpers.                                                        *)
(***************************************************************************)
Min(a, b) == IF a < b THEN a ELSE b
Max(a, b) == IF a > b THEN a ELSE b
Abs(a) == IF a < 0 THEN -a ELSE a
\* f32::clamp
Clamp(x, lo, hi) == IF x < lo THEN lo ELSE IF x > hi THEN hi ELSE x
\* ceiling of n/d for d > 0 and n >= 0
CeilDiv(n, d) == -((-n) \div d)
\* n/d rounded to the nearest integer (halves away from zero), d > 0
RoundDiv(n, d) == IF n >= 0 THEN (2 * n + d) \div (2 * d) ELSE -((2 * (-n) + d) \div (2 * d))
\* (a * b) / d truncated, for a, b >= 0, computed without overflowing a * b
MulDiv(a, b, d) == (a \div d) * b + ((a % d) * b) \div d

RECURSIVE Pow2(_)
Pow2(k) == IF k = 0 THEN 1 ELSE 2 * Pow2(k - 1)

RECURSIVE SeqMaxBy(_, _, _)
\* fold(init, |mx, e| mx.max(f(e))) over a sequence of integers
SeqMaxBy(s, k, acc) == IF k > Len(s) THEN acc ELSE SeqMaxBy(s, k + 1, Max(acc, s[k]))

(***************************************************************************)
(* u64 arithmetic for rand_hash.                                           *)
(***************************************************************************)
U64Bits == 0..63
\* the u64 with value n, 0 <= n < 2^31
U64(n) == [k \in U64Bits |-> IF k <= 30 THEN (n \div Pow2(k)) % 2 ELSE 0]
\* a u64 literal from its 16 hexadecimal digits, most significant first
U64Hex(h) == [k \in U64Bits |-> (h[16 - (k \div 4)] \div Pow2(k % 4)) % 2]
Shr(b, n) == [k \in U64Bits |-> IF k + n <= 63 THEN b[k + n] ELSE 0]
Shl(b, n) == [k \in U64Bits |-> IF k >= n THEN b[k - n] ELSE 0]
Xor(a, b) == [k \in U64Bits |-> (a[k] + b[k]) % 2]
\* the j-th byte (j = 0 least significant) of a u64
Byte(b, j) == b[8*j] + 2*b[8*j+1] + 4*b[8*j+2] + 8*b[8*j+3]
              + 16*b[8*j+4] + 32*b[8*j+5] + 64*b[8*j+6] + 128*b[8*j+7]

RECURSIVE ByteProdSum(_, _, _, _)
\* sum over i = 0..k of byte i of a times byte k-i of c
ByteProdSum(a, c, k, i) ==
    IF i > k THEN 0 ELSE Byte(a, i) * Byte(c, k - i) + ByteProdSum(a, c, k, i + 1)

RECURSIVE MulBytes(_, _, _, _)
\* bytes k..7 of a * c mod 2^64, given the carry into byte k
MulBytes(a, c, k, carry) ==
    IF k > 7 THEN <<>>
    ELSE LET t == ByteProdSum(a, c, k, 0) + carry
         IN  <<t % 256>> \o MulBytes(a, c, k + 1, t \div 256)

\* u64::wrapping_mul
WrappingMul(a, c) ==
    LET bytes == MulBytes(a, c, 0, 0)
    IN  [k \in U64Bits |-> (bytes[(k \div 8) + 1] \div Pow2(k % 8)) % 2]

RECURSIVE BitsToNat(_, _)
\* value of bits 0..k of b; the caller keeps it below 2^31
BitsToNat(b, k) == IF k < 0 THEN 0 ELSE b[k] * Pow2(k) + BitsToNat(b, k - 1)

HashMul == U64Hex(<<2, 5, 4, 5, 15, 4, 9, 1, 4, 15, 6, 12, 13, 13, 1, 13>>)
GoldenXor == U64Hex(<<9, 14, 3, 7, 7, 9, 11, 9, 7, 15, 4, 10, 7, 12, 1, 5>>)

\* rand_hash on a u64 bit vector: the 31-bit integer (x * HashMul) >> 33
RandBits(x0) ==
    LET x1 == Xor(x0, Shr(x0, 12))
        x2 == Xor(x1, Shl(x1, 25))
        x3 == Xor(x2, Shr(x2, 27))
    IN  BitsToNat(Shr(WrappingMul(x3, HashMul), 33), 30)

\* rand_hash: the integer divided by u32::MAX as f32 (= 2^32), in units of 2^-16
RandUnit == 65536
rand_hash(x) == RandBits(x) \div RandUnit


(***************************************************************************)
(* melody-core: the note timeline.                                         *)
(***************************************************************************)
\* one second, in the model's time unit (microseconds)
Sec == 1000000
\* struct Note
Note(p, s, e, v) == [pitch |-> p, start |-> s, end |-> e, velocity |-> v]
\* enum ScaleKind
ScaleKind == {"Major", "Minor"}

(***************************************************************************)
(* melody-synth: types.                                                    *)
(***************************************************************************)
\* enum Osc
Osc == {"Sine", "Saw", "Square"}
\* struct NoteEv
NoteEv(p, on, off, v) == [pitch |-> p, t_on |-> on, t_off |-> off, velocity |-> v]
\* struct LayerSpec; detune in cents, gain in hundredths
LayerSpec(o, d, g) == [osc |-> o, detune_cents |-> d, gain |-> g]
\* impl Default for StyleParams; swing and humanize in thousandths
DefaultStyle ==
    [layering |-> <<"Saw", "Sine">>, swing |-> 0, humanize |-> 100,
     polyphony |-> 1, percussion |-> FALSE, scale |-> "Major"]

\* Result and Option values
Ok(v) == [status |-> "Ok", value |-> v]
Err(e) == [status |-> "Err", error |-> e]
Some(v) == [some |-> TRUE, value |-> v]
None == [some |-> FALSE]
unwrap_or(o, d) == IF o.some THEN o.value ELSE d

(***************************************************************************)
(* Stable sort (slice::sort_by is stable).                                 *)
(***************************************************************************)
RECURSIVE InsertInt(_, _)
\* insert x after every element <= x
InsertInt(s, x) ==
    IF s = <<>> THEN <<x>>
    ELSE IF Head(s) <= x THEN <<Head(s)>> \o InsertInt(Tail(s), x)
    ELSE <<x>> \o s

RECURSIVE SortInts(_)
\* ds.sort_by(|a, b| a.partial_cmp(b).unwrap())
SortInts(s) ==
    IF s = <<>> THEN <<>>
    ELSE InsertInt(SortInts(SubSeq(s, 1, Len(s) - 1)), s[Len(s)])

RECURSIVE InsertByTOn(_, _)
\* insert event x after every event whose t_on is <= x.t_on
InsertByTOn(s, x) ==
    IF s = <<>> THEN <<x>>
    ELSE IF Head(s).t_on <= x.t_on THEN <<Head(s)>> \o InsertByTOn(Tail(s), x)
    ELSE <<x>> \o s

RECURSIVE SortByTOn(_)
\* evs.sort_by(|a, b| a.t_on.partial_cmp(&b.t_on).unwrap())
SortByTOn(s) ==
    IF s = <<>> THEN <<>>
    ELSE InsertByTOn(SortByTOn(SubSeq(s, 1, Len(s) - 1)), s[Len(s)])

(***************************************************************************)
(* melody-synth: MIDI -> events.                                           *)
(***************************************************************************)
RECURSIVE FilterNotesGe(_)
\* FilterNotes with the comparison t_off >= t_on
FilterNotesGe(ns) ==
    IF ns = <<>> THEN <<>>
    ELSE LET n == Head(ns)
         IN  (IF n.end >= n.start
              THEN <<NoteEv(n.pitch, n.start, n.end, n.velocity)>>
              ELSE <<>>) \o FilterNotesGe(Tail(ns))

RECURSIVE FilterNotes(_)
\* the loop of collect_events: keep, in order, the notes with t_off > t_on
FilterNotes(ns) ==
    IF ns = <<>> THEN <<>>
    ELSE LET n == Head(ns)
         IN  (IF n.end > n.start
              THEN <<NoteEv(n.pitch, n.start, n.end, n.velocity)>>
              ELSE <<>>) \o FilterNotes(Tail(ns))

\* collect_events without the check for an empty event list
collect_events_unchecked(midi) == Ok(FilterNotes(midi.notes))

collect_events(midi) ==
    LET evs == FilterNotes(midi.notes)
    IN  IF evs = <<>> THEN Err("No notes in MonophonicMidi (collect_events)") ELSE Ok(evs)

\* BPM in thousandths
estimate_bpm(evs) ==
    IF evs = <<>> THEN None
    ELSE LET ds == SortInts([i \in 1..Len(evs) |-> evs[i].t_off - evs[i].t_on])
             med == ds[(Len(ds) \div 2) + 1]
         IN  IF med <= 0 THEN None
             ELSE \* beats = med / 0.5, in millionths; bpm = 60 * beats.max(0.1)
                  LET beats == 2 * med
                      bpm == RoundDiv(60 * Max(beats, Sec \div 10), 1000)
                  IN  Some(Clamp(bpm, 50000, 200000))

\* calc_total_len folding over t_on instead of t_off
calc_total_len_onsets(evs) == SeqMaxBy([i \in 1..Len(evs) |-> evs[i].t_on], 1, 0)

calc_total_len(evs) == SeqMaxBy([i \in 1..Len(evs) |-> evs[i].t_off], 1, 0)

\* total_samples: (total_len * sr as f32).ceil() as usize + (sr as usize / 2)
total_samples(total_len, sr) == CeilDiv(total_len * sr, Sec) + (sr \div 2)

(***************************************************************************)
(* melody-synth: swing and humanize.                                       *)
(***************************************************************************)
\* rand_hash(i as u64) and rand_hash((i as u64) ^ 0x9E3779B97F4A7C15) for the
\* event indices that occur, evaluated once
TimingHash == [i \in 0..MaxNotes |-> rand_hash(U64(i))]
VelocityHash == [i \in 0..MaxNotes |-> rand_hash(Xor(U64(i), GoldenXor))]

\* HumanizedVelocity clamping to [0, 127]
HumanizedVelocity_from0(velocity, i, human) ==
    LET jv1 == RoundDiv((2 * VelocityHash[i] - RandUnit) * (12 * human), RandUnit)
        vv == velocity * (100000 + jv1)
    IN  IF vv > 12700000 THEN 127 ELSE vv \div 100000

\* the velocity of the event at index i after the jitter:
\* (velocity * jv).clamp(1.0, 127.0) as u8
HumanizedVelocity(velocity, i, human) ==
    LET \* jv - 1, in units of 10^-5
        jv1 == RoundDiv((2 * VelocityHash[i] - RandUnit) * (12 * human), RandUnit)
        vv == velocity * (100000 + jv1)
    IN  IF vv < 100000 THEN 1 ELSE IF vv > 12700000 THEN 127 ELSE vv \div 100000

\* SwingHumanizeOne delaying the events at even indices
SwingHumanizeOne_even(e, i, swing, human, eighth) ==
    LET shift == IF (i % 2) = 0 /\ swing > 0 THEN RoundDiv(swing * eighth, 2000) ELSE 0
        on1 == e.t_on + shift
        off1 == e.t_off + shift
    IN  IF human > 0
        THEN LET dur == Max(off1 - on1, 100)
                 \* 0.02 * human * dur
                 span == RoundDiv(human * (dur \div 50), 1000)
                 jt == RoundDiv((TimingHash[i] - RandUnit \div 2) * span, RandUnit \div 2)
                 on2 == Max(on1 + jt, 0)
                 off2 == Max(off1 + jt, on2 + 100)
             IN  NoteEv(e.pitch, on2, off2, HumanizedVelocity(e.velocity, i, human))
        ELSE NoteEv(e.pitch, on1, off1, e.velocity)

\* the body of the loop of apply_swing_and_humanize for the event e at 0-based
\* index i, with swing and human already clamped
SwingHumanizeOne(e, i, swing, human, eighth) ==
    LET shift == IF (i % 2) = 1 /\ swing > 0 THEN RoundDiv(swing * eighth, 2000) ELSE 0
        on1 == e.t_on + shift
        off1 == e.t_off + shift
    IN  IF human > 0
        THEN LET dur == Max(off1 - on1, 100)
                 \* 0.02 * human * dur
                 span == RoundDiv(human * (dur \div 50), 1000)
                 jt == RoundDiv((TimingHash[i] - RandUnit \div 2) * span, RandUnit \div 2)
                 on2 == Max(on1 + jt, 0)
                 off2 == Max(off1 + jt, on2 + 100)
             IN  NoteEv(e.pitch, on2, off2, HumanizedVelocity(e.velocity, i, human))
        ELSE NoteEv(e.pitch, on1, off1, e.velocity)

\* apply_swing_and_humanize without the two clamps
apply_swing_and_humanize_unclamped(evs, swing_in, human_in, bpm) ==
    IF evs = <<>> THEN evs
    ELSE LET eighth == MulDiv(30 * Sec, 1000, bpm)
         IN  [k \in 1..Len(evs) |-> SwingHumanizeOne(evs[k], k - 1, swing_in, human_in, eighth)]

\* swing, human in thousandths; bpm in thousandths of a beat per minute
apply_swing_and_humanize(evs, swing_in, human_in, bpm) ==
    IF evs = <<>> THEN evs
    ELSE LET swing == Clamp(swing_in, 0, 350)
             human == Clamp(human_in, 0, 400)
             \* eighth = 60.0 / bpm / 2.0
             eighth == MulDiv(30 * Sec, 1000, bpm)
         IN  [k \in 1..Len(evs) |-> SwingHumanizeOne(evs[k], k - 1, swing, human, eighth)]

(***************************************************************************)
(* melody-synth: polyphony expansion.                                      *)
(***************************************************************************)
Transposed(base, semi) ==
    [k \in 1..Len(base) |->
        NoteEv(Clamp(base[k].pitch + semi, 0, 127), base[k].t_on, base[k].t_off, base[k].velocity)]

\* expand_polyphony without the final sort
expand_polyphony_unsorted(evs, voices_in, scale) ==
    LET voices == Max(Min(voices_in, 3), 1)
    IN  IF voices = 1 THEN evs
        ELSE LET third_semi == IF scale = "Major" THEN 4 ELSE 3
                 with3 == evs \o Transposed(evs, third_semi)
             IN  IF voices >= 3 THEN with3 \o Transposed(evs, 7) ELSE with3

expand_polyphony(evs, voices_in, scale) ==
    LET voices == Max(Min(voices_in, 3), 1)
    IN  IF voices = 1 THEN evs
        ELSE LET base == evs
                 third_semi == IF scale = "Major" THEN 4 ELSE 3
                 fifth_semi == 7
                 with3 == IF voices >= 2 THEN evs \o Transposed(base, third_semi) ELSE evs
                 with5 == IF voices >= 3 THEN with3 \o Transposed(base, fifth_semi) ELSE with3
             IN  SortByTOn(with5)

(***************************************************************************)
(* melody-synth: layering.                                                 *)
(***************************************************************************)
\* the (detune, gain) recipe of oscillator osc at 0-based layer position i
LayerRecipe(osc, i) ==
    CASE osc = "Saw" /\ i = 0 -> <<0, 70>>
      [] osc = "Saw" /\ i = 1 -> <<7, 20>>
      [] osc = "Saw" /\ i > 1 -> <<-4, 10>>
      [] osc = "Square" /\ i = 0 -> <<0, 70>>
      [] osc = "Square" /\ i = 1 -> <<5, 20>>
      [] osc = "Square" /\ i > 1 -> <<-5, 10>>
      [] osc = "Sine" /\ i = 0 -> <<0, 80>>
      [] osc = "Sine" /\ i = 1 -> <<12, 15>>
      [] osc = "Sine" /\ i > 1 -> <<4, 5>>

layering_specs(list) ==
    IF list = <<>> THEN <<LayerSpec("Saw", 0, 100)>>
    ELSE [k \in 1..Len(list) |->
            LayerSpec(list[k], LayerRecipe(list[k], k - 1)[1], LayerRecipe(list[k], k - 1)[2])]

\* Vec::rotate_left
rotate_left(s, r) == SubSeq(s, r + 1, Len(s)) \o SubSeq(s, 1, r)

(***************************************************************************)
(* melody-synth: rendering.  A write is the index range [start, end) of    *)
(* the output buffer that one call adds samples to; the oscillator         *)
(* amplitudes (sin, powf) are not evaluated.                               *)
(***************************************************************************)
Write(kind, src, start, end) == [kind |-> kind, src |-> src, start |-> start, end |-> end]

\* render_note: the writes of one call into a buffer of out_len samples
render_note(out_len, sr, t_on, t_off, src) ==
    IF t_off <= t_on THEN <<>>
    ELSE LET start == Max(t_on * sr, 0) \div Sec
             end == Min((t_off * sr) \div Sec, out_len)
         IN  IF end <= start THEN <<>> ELSE <<Write("note", src, start, end)>>

RECURSIVE RenderLayers(_, _, _, _, _, _)
\* the inner loop over the rotated layer specs of the event ev at index idx:
\* the calls of render_note, each with the layer it renders and its writes
RenderLayers(out_len, sr, ev, idx, rotated, k) ==
    IF k > Len(rotated) THEN <<>>
    ELSE LET src == [idx |-> idx, osc |-> rotated[k].osc,
                     detune_cents |-> rotated[k].detune_cents, gain |-> rotated[k].gain]
         IN  <<[src |-> src, writes |-> render_note(out_len, sr, ev.t_on, ev.t_off, src)]>>
             \o RenderLayers(out_len, sr, ev, idx, rotated, k + 1)

RECURSIVE RenderEvents_recipe_last(_, _, _, _, _)
\* RenderEvents taking the recipes of the layers from their rotated positions
RenderEvents_recipe_last(out_len, sr, events, layer_specs, idx) ==
    IF idx >= Len(events) THEN <<>>
    ELSE LET ev == events[idx + 1]
             sec_idx == Max(ev.t_on \div (8 * Sec), 0)
             r == IF layer_specs = <<>> THEN 0 ELSE (sec_idx + idx \div 32) % Len(layer_specs)
             rotated == layering_specs(rotate_left([k \in 1..Len(layer_specs) |->
                                                      layer_specs[k].osc], r))
         IN  RenderLayers(out_len, sr, ev, idx, rotated, 1)
             \o RenderEvents_recipe_last(out_len, sr, events, layer_specs, idx + 1)

RECURSIVE RenderEvents(_, _, _, _, _)
\* the loop over events.iter().enumerate(), from 0-based index idx on
RenderEvents(out_len, sr, events, layer_specs, idx) ==
    IF idx >= Len(events) THEN <<>>
    ELSE LET ev == events[idx + 1]
             \* (ev.t_on / section_len).floor() as usize, 0 for a negative t_on
             sec_idx == Max(ev.t_on \div (8 * Sec), 0)
             r == IF layer_specs = <<>> THEN 0 ELSE (sec_idx + idx \div 32) % Len(layer_specs)
             rotated == rotate_left(layer_specs, r)
         IN  RenderLayers(out_len, sr, ev, idx, rotated, 1)
             \o RenderEvents(out_len, sr, events, layer_specs, idx + 1)

RECURSIVE WritesOf(_)
\* the writes of a list of calls, in order
WritesOf(calls) ==
    IF calls = <<>> THEN <<>> ELSE Head(calls).writes \o WritesOf(Tail(calls))

\* render_kick, render_snare, render_hat share the same range computation
DrumHit(kind, idx, out_len, sr, t_on, dur) ==
    LET start == (t_on * sr) \div Sec
        end == ((t_on + dur) * sr) \div Sec
    IN  IF end <= start \/ end > out_len THEN <<>> ELSE <<Write(kind, idx, start, end)>>

\* The drum grid is computed in f32.  A positive f32 is <<m, e>>, the value
\* m * 2^e with F32Half <= m < F32Top; results round to nearest, ties to even.
F32Top == Pow2(24)
F32Half == Pow2(23)

\* the mantissa q, rounded up or not, with exponent e
F32Round[q \in Nat, up \in BOOLEAN, e \in Int] ==
    IF ~up THEN <<q, e>>
    ELSE IF q + 1 = F32Top THEN <<F32Half, e + 1>> ELSE <<q + 1, e>>

\* long division of n by d: <<q, r, e>> with n / d = (q + r / d) * 2^e
F32Bits[q \in Nat, r \in Nat, d \in Nat, e \in Int] ==
    IF q >= F32Half THEN <<q, r, e>>
    ELSE IF 2 * r >= d THEN F32Bits[2 * q + 1, 2 * r - d, d, e - 1]
         ELSE F32Bits[2 * q, 2 * r, d, e - 1]

\* n as f32 / d as f32 for integers 0 < n, d < F32Top
F32Div[n \in Nat, d \in Nat] ==
    LET b == F32Bits[n \div d, n % d, d, 0]
    IN  F32Round[b[1], 2 * b[2] > d \/ (2 * b[2] = d /\ b[1] % 2 = 1), b[3]]

\* the number of low bits of p that do not fit in the mantissa
F32Shift[p \in Nat] == IF p < F32Top THEN 0 ELSE 1 + F32Shift[p \div 2]

\* the product p * 2^e, of which the s low bits of p are rounded away
F32Cut[p \in Nat, s \in Nat, e \in Int] ==
    LET q == p \div Pow2(s)
        r == p % Pow2(s)
    IN  F32Round[q, s > 0 /\ (2 * r > Pow2(s) \/ (2 * r = Pow2(s) /\ q % 2 = 1)), e + s]

\* k as f32 * x for an integer 0 < k < 128 and x = m * 2^e
F32MulInt[k \in Nat, m \in Nat, e \in Int] == F32Cut[k * m, F32Shift[k * m], e]

\* the binade of a quotient with integer part q: 2^j <= q < 2^(j+1), -1 below 1
F32Exponent[q \in Nat] == IF q = 0 THEN -1 ELSE 1 + F32Exponent[q \div 2]

\* spb = 60.0 / bpm, bpm in thousandths
F32Spb[bpm \in Nat] ==
    LET bpm32 == F32Div[bpm, 1000]
        q60 == F32Div[60, bpm32[1]]
    IN  <<q60[1], q60[2] - bpm32[2]>>

\* (t / spb).floor() and (t % spb) < 1e-6 for t = t_int * 2^e, spb = s_int * 2^e
F32Beat[t_int \in Nat, s_int \in Nat, e \in Int] ==
    LET quot == t_int \div s_int
        rem == t_int % s_int
        \* t / spb rounds up to quot + 1 within half an ulp of it
        half_ulp == s_int \div Pow2(24 - F32Exponent[quot])
        \* t % spb is exact; 1e-6 in units of 2^e is never an integer
        eps == Pow2(-e) \div 1000000
    IN  [beat_num |-> IF rem > 0 /\ s_int - rem <= half_ulp THEN quot + 1 ELSE quot,
         is_beat |-> rem <= eps]

\* beat_num and is_beat of t = idx as f32 * eighth
F32BeatOf[t \in Nat \X Int, spb \in Nat \X Int] ==
    F32Beat[t[1] * Pow2(t[2] - Min(t[2], spb[2])),
            spb[1] * Pow2(spb[2] - Min(t[2], spb[2])),
            Min(t[2], spb[2])]

\* beat_num and is_beat at grid position idx, bpm in thousandths
DrumBeat(idx, bpm) ==
    IF idx = 0 THEN [beat_num |-> 0, is_beat |-> TRUE]
    ELSE F32BeatOf[F32MulInt[idx, F32Spb[bpm][1], F32Spb[bpm][2] - 1], F32Spb[bpm]]

RECURSIVE DrumLoop(_, _, _, _, _, _)
\* the while loop of render_drums from grid position idx on; t and the hit
\* ranges in microseconds, the beat of the position in f32
DrumLoop(out_len, sr, bpm, eighth, total_secs, idx) ==
    LET t == idx * eighth
    IN  IF ~(t < total_secs) THEN <<>>
        ELSE LET beat == DrumBeat(idx, bpm)
                 in_bar == beat.beat_num % 4
                 is_beat == beat.is_beat
                 kick == IF is_beat /\ (in_bar = 0 \/ in_bar = 2)
                         THEN DrumHit("kick", idx, out_len, sr, t, 180000) ELSE <<>>
                 snare == IF is_beat /\ (in_bar = 1 \/ in_bar = 3)
                          THEN DrumHit("snare", idx, out_len, sr, t + 5000, 140000) ELSE <<>>
                 hat == DrumHit("hat", idx, out_len, sr, t, 50000)
             IN  kick \o snare \o hat \o DrumLoop(out_len, sr, bpm, eighth, total_secs, idx + 1)

render_drums(out_len, sr, bpm) ==
    LET spb == MulDiv(60 * Sec, 1000, bpm)
        eighth == spb \div 2
        \* out.len() / sr, rounded up: t < total_secs compares an integer t
        total_secs == CeilDiv(out_len * Sec, sr)
    IN  DrumLoop(out_len, sr, bpm, eighth, total_secs, 0)

\* render_wav_bytes_styled; sr > 0
render_wav_bytes_styled(midi, sr, style) ==
    IF style.layering = <<>>
    THEN Err("StyleParams.layering must contain at least one oscillator")
    ELSE LET collected == collect_events(midi)
         IN  IF collected.status = "Err" THEN collected
             ELSE LET events0 == collected.value
                      bpm == unwrap_or(estimate_bpm(events0), 120000)
                      events1 == apply_swing_and_humanize(events0, style.swing, style.humanize, bpm)
                      events == IF style.polyphony > 1
                                THEN expand_polyphony(events1, style.polyphony, style.scale)
                                ELSE events1
                      total_len == calc_total_len(events)
                      out_len == total_samples(total_len, sr)
                      layer_specs == layering_specs(style.layering)
                      note_calls == RenderEvents(out_len, sr, events, layer_specs, 0)
                      note_writes == WritesOf(note_calls)
                      drum_writes == IF style.percussion THEN render_drums(out_len, sr, bpm) ELSE <<>>
                  IN  Ok([collected |-> events0, bpm |-> bpm, swung |-> events1,
                          events |-> events, len |-> out_len, calls |-> note_calls,
                          writes |-> note_writes \o drum_writes])

(***************************************************************************)
(* Sample arithmetic: binary floating point with MantBits bits of          *)
(* precision.  A sample is an integer number of units of 2^-FracBits.      *)
(***************************************************************************)
FracBits == MantBits + 5
\* the sample value 1.0
One == Pow2(FracBits)

\* a / d (a >= 0, d > 0) rounded to the nearest integer, ties to even
RoundHalfEven(a, d) ==
    LET f == a \div d
        r == a % d
    IN  IF 2 * r > d THEN f + 1
        ELSE IF 2 * r < d THEN f
        ELSE IF f % 2 = 0 THEN f ELSE f + 1

RECURSIVE ExpOf(_, _)
\* the least e >= 0 with q / 2^e < 2^MantBits
ExpOf(q, e) == IF q \div Pow2(e) < Pow2(MantBits) THEN e ELSE ExpOf(q, e + 1)

\* the floating-point number nearest to n / d (d > 0)
Fl(n, d) ==
    IF n = 0 THEN 0
    ELSE LET a == Abs(n)
             e == ExpOf(a \div d, 0)
             m == RoundHalfEven(a, d * Pow2(e)) * Pow2(e)
         IN  IF n < 0 THEN -m ELSE m
\* f32 multiplication and division of samples
FlMul(x, y) == Fl(x * y, One)
FlDiv(x, y) == Fl(x * One, y)
\* the next floating-point number above x > 0
FlSucc(x) == x + Pow2(ExpOf(x, 0))

\* the literal 0.99
TargetPeak == Fl(99 * One, 100)
\* the literal 1e-9
TinyPeak == Fl(One, 1000000000)

(***************************************************************************)
(* melody-synth: soft normalization.                                       *)
(***************************************************************************)
RECURSIVE PeakIn(_, _, _)
\* the largest |buf[i]| for i in lo..hi (lo <= hi), by halves
PeakIn(buf, lo, hi) ==
    IF lo = hi THEN Abs(buf[lo])
    ELSE LET mid == (lo + hi) \div 2
         IN  Max(PeakIn(buf, lo, mid), PeakIn(buf, mid + 1, hi))

\* the loop  for &x in buf.iter() { peak = peak.max(x.abs()); }
PeakOf(buf, peak) == IF buf = <<>> THEN peak ELSE Max(peak, PeakIn(buf, 1, Len(buf)))

\* normalize_soft scaling by target_peak instead of target_peak / peak
normalize_soft_undivided(buf, target_peak) ==
    LET peak == PeakOf(buf, 0)
    IN  IF peak > target_peak /\ peak > TinyPeak
        THEN [i \in 1..Len(buf) |-> FlMul(buf[i], target_peak)]
        ELSE buf

\* normalize_soft without the test  peak > target_peak
normalize_soft_always(buf, target_peak) ==
    LET peak == PeakOf(buf, 0)
    IN  IF peak > TinyPeak
        THEN LET k == FlDiv(target_peak, peak)
             IN  [i \in 1..Len(buf) |-> FlMul(buf[i], k)]
        ELSE buf

normalize_soft(buf, target_peak) ==
    LET peak == PeakOf(buf, 0)
    IN  IF peak > target_peak /\ peak > TinyPeak
        THEN LET k == FlDiv(target_peak, peak)
             IN  [i \in 1..Len(buf) |-> FlMul(buf[i], k)]
        ELSE buf

(***************************************************************************)
(* audio-features: FeatureExtractor::analyze_mono.  Samples are integers   *)
(* in hundredths; a frame size divides 4, so that the window and the FFT   *)
(* have rational coefficients.                                             *)
(***************************************************************************)
Panic(e) == [status |-> "Panic", error |-> e]

RECURSIVE SumIn(_, _, _)
\* the sum of s[i] for i in lo..hi, by halves
SumIn(s, lo, hi) ==
    IF lo > hi THEN 0
    ELSE IF lo = hi THEN s[lo]
    ELSE LET mid == (lo + hi) \div 2
         IN  SumIn(s, lo, mid) + SumIn(s, mid + 1, hi)

\* iter().sum()
SumSeq(s) == SumIn(s, 1, Len(s))

\* ZeroCrossings counting the pairs of opposite sign only
ZeroCrossings_sign(mono) ==
    Cardinality({i \in 1..(Len(mono) - 1) : mono[i] * mono[i + 1] < 0})

\* the loop over mono.windows(2)
ZeroCrossings(mono) ==
    SumSeq([i \in 1..(Len(mono) - 1) |->
               LET a == mono[i]
                   b == mono[i + 1]
               IN  IF (a >= 0 /\ b < 0) \/ (a < 0 /\ b >= 0) THEN 1 ELSE 0])

RECURSIVE ISqrtIn(_, _, _)
\* the largest r in lo..hi with r * r <= x
ISqrtIn(x, lo, hi) ==
    IF lo = hi THEN lo
    ELSE LET mid == (lo + hi + 1) \div 2
         IN  IF mid * mid <= x THEN ISqrtIn(x, mid, hi) ELSE ISqrtIn(x, lo, mid - 1)

\* sqrt(), truncated to the fixed-point grid of its argument's root
ISqrt(x) == ISqrtIn(x, 0, 46340)

\* one in the fixed point the logarithm works in
LogOne == Pow2(12)

RECURSIVE Log2Int(_)
\* the integer part of log2(x), x >= 1
Log2Int(x) == IF x < 2 THEN 0 ELSE 1 + Log2Int(x \div 2)

RECURSIVE Log2Frac(_, _)
\* the next `bits` binary digits of log2(m / LogOne), m / LogOne in [1, 2)
Log2Frac(m, bits) ==
    IF bits = 0 THEN 0
    ELSE LET sq == (m * m) \div LogOne
         IN  IF sq >= 2 * LogOne
             THEN Pow2(bits - 1) + Log2Frac(sq \div 2, bits - 1)
             ELSE Log2Frac(sq, bits - 1)

\* ln(x) in thousandths, for an integer x in 1..2^18
LnOf(x) ==
    LET e == Log2Int(x)
        m == (x * LogOne) \div Pow2(e)
    IN  RoundDiv((e * LogOne + Log2Frac(m, 12)) * 6931, 10 * LogOne)

\* LnOf, computed once for the arguments that recur
LnTable == [x \in 1..Pow2(12) |-> LnOf(x)]
LnMilli(x) == IF x \in DOMAIN LnTable THEN LnTable[x] ELSE LnOf(x)

\* exp(x) in thousandths, for x <= 0 in thousandths
ExpMilli(x) ==
    LET y == -x
        q == y \div 693
        r == y % 693
        t2 == (r * r) \div 2000
        t3 == (t2 * r) \div 3000
        t4 == (t3 * r) \div 4000
        t5 == (t4 * r) \div 5000
    IN  IF q > 20 THEN 0 ELSE (1000 - r + t2 - t3 + t4 - t5) \div Pow2(q)

\* the f32/f64 value NaN, apart from every number of the fixed point
NaN == -Pow2(30)
\* a + b in floating point
AddF(a, b) == IF a = NaN \/ b = NaN THEN NaN ELSE a + b
\* sum / n in floating point, rounded to the grid
DivF(sum, n) == IF sum = NaN THEN NaN ELSE RoundDiv(sum, n)

RECURSIVE SumF(_)
\* the running sums  x_sum += x  over the frames
SumF(s) == IF s = <<>> THEN 0 ELSE AddF(Head(s), SumF(Tail(s)))

\* cos and sin of q quarter turns
Cos4(q) == LET r == q % 4 IN IF r = 0 THEN 1 ELSE IF r = 2 THEN -1 ELSE 0
Sin4(q) == LET r == q % 4 IN IF r = 1 THEN 1 ELSE IF r = 3 THEN -1 ELSE 0

\* twice window[i] of the Hann window of fs points, fs dividing 4 (then the
\* cosine is that of a whole number of quarter turns and f32 gives 0, 1/2, 1)
HannTwice(i, fs) == 1 - Cos4((4 * i) \div fs)

\* buf before the FFT: the frame at `start` times the window, in units of 1/200
Windowed(mono, start, fs) == [i \in 1..fs |-> mono[start + i] * HannTwice(i - 1, fs)]

\* real and imaginary part of bin k after fft.process(&mut buf), Len(buf) dividing 4
FftRe(buf, k) ==
    LET fs == Len(buf)
    IN  SumSeq([n \in 1..fs |-> buf[n] * Cos4((4 \div fs) * k * (n - 1))])
FftIm(buf, k) ==
    LET fs == Len(buf)
    IN  -SumSeq([n \in 1..fs |-> buf[n] * Sin4((4 \div fs) * k * (n - 1))])

\* magnitudes are in units of 1/MagUnit
MagUnit == 2000

\* mag[0..=fs/2] of a windowed frame (bin k at position k + 1)
Magnitudes(buf) ==
    [j \in 1..(Len(buf) \div 2 + 1) |->
        LET re == FftRe(buf, j - 1)
            im == FftIm(buf, j - 1)
        IN  ISqrt(((MagUnit \div 200) * (MagUnit \div 200)) * (re * re + im * im))]

\* bin2hz(k), in thousandths of a Hz
bin2hz(k, sr, fs) == RoundDiv(k * sr * 1000, fs)

\* centroid_hz of one frame, in thousandths
CentroidHz(mag, sr, fs) ==
    LET wsum == SumSeq(mag)
        ksum == SumSeq([j \in DOMAIN mag |-> mag[j] * (j - 1)])
    IN  IF wsum > 0 THEN RoundDiv(ksum * sr * 1000, wsum * fs) ELSE 0

\* bw_hz of one frame, in thousandths: var / wsum = k2sum / wsum - centroid_bin^2
BandwidthHz(mag, sr, fs) ==
    LET wsum == SumSeq(mag)
        ksum == SumSeq([j \in DOMAIN mag |-> mag[j] * (j - 1)])
        k2sum == SumSeq([j \in DOMAIN mag |-> mag[j] * (j - 1) * (j - 1)])
    IN  IF wsum > 0
        THEN RoundDiv(ISqrt(k2sum * wsum - ksum * ksum) * sr * 1000, wsum * fs)
        ELSE 0

RECURSIVE RolloffLoop(_, _, _, _, _)
\* the loop  for k in 0..=fs/2  from bin k on, csum being the sum below bin k
RolloffLoop(mag, k, csum, r85, r95) ==
    IF k > Len(mag) - 1 THEN <<r85, r95>>
    ELSE LET total == SumSeq(mag)
             c == csum + mag[k + 1]
             n85 == IF r85 = 0 /\ 100 * c >= 85 * total THEN k ELSE r85
         IN  IF r95 = 0 /\ 100 * c >= 95 * total
             THEN <<n85, k>>
             ELSE RolloffLoop(mag, k + 1, c, n85, r95)

\* Rolloff giving <<r95, r85>>
Rolloff_swapped(mag) ==
    IF SumSeq(mag) > 0
    THEN LET r == RolloffLoop(mag, 0, 0, 0, 0) IN <<r[2], r[1]>>
    ELSE <<0, 0>>

\* <<r85, r95>> of one frame
Rolloff(mag) == IF SumSeq(mag) > 0 THEN RolloffLoop(mag, 0, 0, 0, 0) ELSE <<0, 0>>

\* 1000 ln(1e-12)
LnEps == -27631
\* 1000 ln(m + eps) of a magnitude or sum of magnitudes m
LnMag(m) == IF m = 0 THEN LnEps ELSE LnMilli(m) - LnMilli(MagUnit)

\* flat of one frame, in thousandths
Flatness(mag) ==
    LET total == SumSeq(mag)
        geo == RoundDiv(SumSeq([j \in DOMAIN mag |-> LnMag(mag[j])]), Len(mag))
        arith == LnMag(total) - LnMilli(Len(mag))
    IN  IF geo >= arith THEN 1000 ELSE ExpMilli(geo - arith)

\* h_norm of one frame, in thousandths
SpectralEntropy(mag) ==
    LET total == SumSeq(mag)
        h == IF total = 0 THEN 0
             ELSE RoundDiv(SumSeq([j \in DOMAIN mag |->
                               IF mag[j] > 0
                               THEN mag[j] * (LnMilli(total) - LnMilli(mag[j]))
                               ELSE 0]), total)
        logn == LnMilli(Len(mag))
    IN  IF logn = 0
        THEN (IF h = 0 THEN NaN ELSE 1000)
        ELSE Clamp(RoundDiv(h * 1000, logn), 0, 1000)

\* flux of one frame against the previous one
Flux(mag, prev_mag) == SumSeq([j \in DOMAIN mag |-> Max(mag[j] - prev_mag[j], 0)])

\* the frames (1-based) whose f in flux_vals has f > mean_flux * 1.5
OnsetFrames(flux_vals) ==
    {i \in DOMAIN flux_vals : 2 * flux_vals[i] * Len(flux_vals) > 3 * SumSeq(flux_vals)}

\* onsets, the number of these frames
Onsets(flux_vals) == Cardinality(OnsetFrames(flux_vals))

\* ac[lag] for lag in 1..len-1
Autocorr(flux_vals) ==
    [lag \in 1..(Len(flux_vals) - 1) |->
        LET c == Len(flux_vals) - lag
        IN  RoundDiv(SumSeq([i \in 1..c |-> flux_vals[i + lag] * flux_vals[i]]), c)]

RECURSIVE TempoLoop_wide(_, _, _, _, _, _)
\* TempoLoop without the test of cand_bpm against [50, 200]
TempoLoop_wide(ac, lag, sr, hop, best_bpm, best_val) ==
    IF lag > Len(ac) THEN best_bpm
    ELSE IF ac[lag] > best_val
         THEN TempoLoop_wide(ac, lag + 1, sr, hop, RoundDiv(60000 * sr, hop * lag), ac[lag])
         ELSE TempoLoop_wide(ac, lag + 1, sr, hop, best_bpm, best_val)

RECURSIVE TempoLoop(_, _, _, _, _, _)
\* the loop  for lag in 1..ac.len()  from `lag` on; BPM in thousandths
TempoLoop(ac, lag, sr, hop, best_bpm, best_val) ==
    IF lag > Len(ac) THEN best_bpm
    ELSE IF /\ 60 * sr >= 50 * hop * lag
            /\ 60 * sr <= 200 * hop * lag
            /\ ac[lag] > best_val
         THEN TempoLoop(ac, lag + 1, sr, hop, RoundDiv(60000 * sr, hop * lag), ac[lag])
         ELSE TempoLoop(ac, lag + 1, sr, hop, best_bpm, best_val)

\* bpm, ac being the autocorrelation of flux_vals
Tempo(flux_vals, ac, sr, hop) ==
    IF Len(flux_vals) < 4 THEN 0
    ELSE TempoLoop(ac, 1, sr, hop, 0, 0)

\* AmpBin without the clamp
AmpBin_unclamped(x) == ((x + 100) * 63) \div 200

\* the histogram bin of sample x
AmpBin(x) == Clamp(((x + 100) * 63) \div 200, 0, 63)

\* hist after the loop over mono: hist[b] counts the samples of bin b - 1
Histogram(mono) ==
    LET bin == [i \in DOMAIN mono |-> AmpBin(mono[i])]
        used == {bin[i] : i \in DOMAIN mono}
    IN  [b \in 1..64 |->
            IF (b - 1) \in used THEN Cardinality({i \in DOMAIN mono : bin[i] = b - 1}) ELSE 0]

\* amp_entropy, in thousandths, from hist and total
AmplitudeEntropy(hist, total) ==
    LET h == RoundDiv(SumSeq([b \in 1..64 |->
                         IF hist[b] = 0 THEN 0
                         ELSE hist[b] * (LnMilli(total) - LnMilli(hist[b]))]), total)
    IN  RoundDiv(h * 1000, LnMilli(64))

\* (fr[j] - mean) in units of 1/10000, mean being the window's mean
Centered(fr) ==
    LET mean == RoundDiv(SumSeq(fr) * 100, Len(fr))
    IN  [j \in DOMAIN fr |-> fr[j] * 100 - mean]

\* the mean of d[j] * d[j - p] over j in p..len-1, in units of 1/100000
LagProduct(d, p) ==
    LET c == Len(d) - p
        s == SumSeq([j \in 1..c |-> RoundDiv(d[j + p] * d[j], 1000)])
    IN  IF c > 0 THEN RoundDiv(s, c) ELSE 0

RECURSIVE AcfPeak_inclusive(_, _, _, _, _, _)
\* AcfPeak examining the lag p_end as well
AcfPeak_inclusive(d, p, p_end, best_p, best_v, seen) ==
    IF p > p_end THEN <<best_p, best_v, seen>>
    ELSE LET s == LagProduct(d, p)
         IN  IF s > best_v THEN AcfPeak_inclusive(d, p + 1, p_end, p, s, Append(seen, p))
             ELSE AcfPeak_inclusive(d, p + 1, p_end, best_p, best_v, Append(seen, p))

RECURSIVE AcfPeak(_, _, _, _, _, _)
\* the loop  for p in (sr/400).max(2) .. sr/60  from p on, seen being the
\* lags examined so far: <<best_p, best_v, seen>>
AcfPeak(d, p, p_end, best_p, best_v, seen) ==
    IF p >= p_end THEN <<best_p, best_v, seen>>
    ELSE LET s == LagProduct(d, p)
         IN  IF s > best_v THEN AcfPeak(d, p + 1, p_end, p, s, Append(seen, p))
             ELSE AcfPeak(d, p + 1, p_end, best_p, best_v, Append(seen, p))

RECURSIVE PitchWindows(_, _, _, _, _)
\* the loop  while i + win <= mono.len()  from i on: one entry per window,
\* with its offset i, its length, the lags examined, the best score, its
\* voiced flag and its hz in thousandths
PitchWindows(mono, i, win, step, sr) ==
    IF i + win > Len(mono) THEN <<>>
    ELSE LET d == Centered(SubSeq(mono, i + 1, i + win))
             energy == LagProduct(d, 0)
             best == AcfPeak(d, Max(sr \div 400, 2), sr \div 60, 0, 0, <<>>)
             voiced == energy > 10 /\ best[2] > 10
         IN  <<[i |-> i, len |-> Len(d), lags |-> best[3], best_v |-> best[2],
                voiced |-> voiced, hz |-> RoundDiv(sr * 1000, Max(best[1], 1))]>>
             \o PitchWindows(mono, i + step, win, step, sr)

\* F0Stats from the windows of the loop: mean_hz and std_hz in thousandths of
\* a Hz, voiced_ratio in thousandths
F0Stats(windows, n, step) ==
    LET f0s == SelectSeq(windows, LAMBDA w : w.voiced)
        voiced == Len(f0s)
    IN  IF f0s = <<>> THEN [mean_hz |-> 0, std_hz |-> 0, voiced_ratio |-> 0]
        ELSE LET m == RoundDiv(SumSeq([i \in DOMAIN f0s |-> f0s[i].hz]), voiced)
                 v == RoundDiv(SumSeq([i \in DOMAIN f0s |->
                                  RoundDiv(f0s[i].hz - m, 100) * RoundDiv(f0s[i].hz - m, 100)]),
                               voiced)
             IN  [mean_hz |-> m, std_hz |-> 100 * ISqrt(v),
                  voiced_ratio |-> Clamp(RoundDiv(voiced * 1000, Max(n \div step, 1)),
                                         0, 1000)]

\* the windows of the F0 block
F0Windows(mono, sr, hop) ==
    PitchWindows(mono, 0, Max(sr \div 50, 1024), Max(hop, 256), sr)

\* rms in thousandths
Rms(mono) == ISqrt((100 * SumSeq([i \in DOMAIN mono |-> mono[i] * mono[i]])) \div Len(mono))

\* the report: peak in hundredths; rms, crest_factor, flatness and the
\* entropies in thousandths; zcr and onset_rate in thousandths per second; Hz
\* and BPM in thousandths; with it the intermediate values zc, n_frames,
\* frames (start offsets), mags, rolloffs, flux_vals, ac, onset_frames, hist
\* and pitch (the F0 windows) of the run
Report(amp, onset_rate, bpm, spectral, amp_entropy, f0, run) ==
    [rms |-> amp.rms, peak |-> amp.peak, crest_factor |-> amp.crest, zcr |-> amp.zcr,
     onset_rate |-> onset_rate, tempo_bpm |-> bpm,
     spectral_centroid_hz |-> spectral.centroid,
     spectral_rolloff85_hz |-> spectral.rolloff85,
     spectral_rolloff95_hz |-> spectral.rolloff95,
     spectral_flatness |-> spectral.flatness,
     spectral_bandwidth_hz |-> spectral.bandwidth,
     spectral_entropy |-> spectral.entropy,
     amplitude_entropy |-> amp_entropy,
     f0 |-> f0,
     zc |-> amp.zc, n_frames |-> run.n_frames, frames |-> run.frames,
     mags |-> run.mags, rolloffs |-> run.rolloffs, flux_vals |-> run.flux_vals,
     ac |-> run.ac, short |-> run.n_frames = 0,
     onset_frames |-> run.onset_frames, hist |-> run.hist, pitch |-> run.pitch]

\* ShortReport with the flatness an all-zero frame would give
ShortReport_flat(amp) ==
    Report(amp, 0, 0,
           [centroid |-> 0, rolloff85 |-> 0, rolloff95 |-> 0, flatness |-> 1000,
            bandwidth |-> 0, entropy |-> 0],
           0, [mean_hz |-> 0, std_hz |-> 0, voiced_ratio |-> 0],
           [n_frames |-> 0, frames |-> <<>>, mags |-> <<>>, rolloffs |-> <<>>,
            flux_vals |-> <<>>, ac |-> <<>>, onset_frames |-> {}, hist |-> <<>>,
            pitch |-> <<>>])

\* the report returned when n_frames = 0
ShortReport(amp) ==
    Report(amp, 0, 0,
           [centroid |-> 0, rolloff85 |-> 0, rolloff95 |-> 0, flatness |-> 0,
            bandwidth |-> 0, entropy |-> 0],
           0, [mean_hz |-> 0, std_hz |-> 0, voiced_ratio |-> 0],
           [n_frames |-> 0, frames |-> <<>>, mags |-> <<>>, rolloffs |-> <<>>,
            flux_vals |-> <<>>, ac |-> <<>>, onset_frames |-> {}, hist |-> <<>>,
            pitch |-> <<>>])

\* what one pass of the loop over the frames computes from mag and prev_mag
FrameFeatures(mag, prev_mag, sr, fs) ==
    LET r == Rolloff(mag)
    IN  [centroid_hz |-> CentroidHz(mag, sr, fs),
         bw_hz |-> BandwidthHz(mag, sr, fs),
         rolloff |-> r,
         roll85_hz |-> bin2hz(r[1], sr, fs),
         roll95_hz |-> bin2hz(r[2], sr, fs),
         flat |-> Flatness(mag),
         h_norm |-> SpectralEntropy(mag),
         flux |-> Flux(mag, prev_mag)]

\* FrameCount analysing the first frame only
FrameCount_first(n, fs, hop) == 1

\* n_frames for n >= fs
FrameCount(n, fs, hop) == 1 + (n - fs) \div hop

\* analyze_mono of an extractor with frame_size fs and hop_size hop
analyze_mono(fs, hop, mono, sr) ==
    IF mono = <<>> \/ sr = 0 THEN Err("empty signal")
    ELSE LET peak == PeakOf(mono, 0)
             rms == Rms(mono)
             zc == ZeroCrossings(mono)
             n == Len(mono)
             amp == [rms |-> rms, peak |-> peak,
                     crest |-> IF rms > 0 THEN RoundDiv(peak * 10000, rms) ELSE 0,
                     zc |-> zc, zcr |-> RoundDiv(zc * sr * 1000, Max(n - 1, 1))]
         IN  IF n < fs THEN Ok(ShortReport(amp))
             ELSE IF hop = 0 THEN Panic("attempt to divide by zero")
             ELSE LET n_frames == FrameCount(n, fs, hop)
                      frames == [fi \in 1..n_frames |-> (fi - 1) * hop]
                      mags == [fi \in 1..n_frames |-> Magnitudes(Windowed(mono, frames[fi], fs))]
                      prev_mag(fi) == IF fi = 1 THEN [j \in 1..(fs \div 2 + 1) |-> 0]
                                      ELSE mags[fi - 1]
                      per == [fi \in 1..n_frames |-> FrameFeatures(mags[fi], prev_mag(fi), sr, fs)]
                      avg(s) == DivF(SumF(s), n_frames)
                      spectral ==
                          [centroid |-> avg([fi \in 1..n_frames |-> per[fi].centroid_hz]),
                           rolloff85 |-> avg([fi \in 1..n_frames |-> per[fi].roll85_hz]),
                           rolloff95 |-> avg([fi \in 1..n_frames |-> per[fi].roll95_hz]),
                           flatness |-> avg([fi \in 1..n_frames |-> per[fi].flat]),
                           bandwidth |-> avg([fi \in 1..n_frames |-> per[fi].bw_hz]),
                           entropy |-> avg([fi \in 1..n_frames |-> per[fi].h_norm])]
                      flux_vals == [fi \in 1..n_frames |-> per[fi].flux]
                      ac == IF n_frames < 4 THEN <<>> ELSE Autocorr(flux_vals)
                      hist == Histogram(mono)
                      pitch == F0Windows(mono, sr, hop)
                  IN  \* fs = 0: the frame and its FFT buffer are empty and buf[0] is read
                      IF fs = 0 THEN Panic("index out of bounds")
                      ELSE Ok(Report(amp,
                                     RoundDiv(Onsets(flux_vals) * sr * 1000, n),
                                     Tempo(flux_vals, ac, sr, hop),
                                     spectral, AmplitudeEntropy(hist, n),
                                     F0Stats(pitch, n, Max(hop, 256)),
                                     [n_frames |-> n_frames, frames |-> frames, mags |-> mags,
                                      rolloffs |-> [fi \in 1..n_frames |-> per[fi].rolloff],
                                      flux_vals |-> flux_vals, ac |-> ac,
                                      onset_frames |-> OnsetFrames(flux_vals),
                                      hist |-> hist, pitch |-> pitch]))

(***************************************************************************)
(* melody-core: MonophonicMidi::to_mid_bytes.  The result is the Smf that  *)
(* is written out; a note event carries, next to its delta and message,    *)
(* the index n of the note it was made from.                               *)
(***************************************************************************)
ppq == 480

RECURSIVE MidiEvs(_, _)
\* evs after the loop over self.notes: (time, is_on, note) from note i on
MidiEvs(ns, i) ==
    IF i > Len(ns) THEN <<>>
    ELSE << [t |-> ns[i].start, is_on |-> TRUE, n |-> i],
            [t |-> ns[i].end, is_on |-> FALSE, n |-> i] >> \o MidiEvs(ns, i + 1)

RECURSIVE InsertByT(_, _)
\* insert x after every element whose time is <= x.t
InsertByT(s, x) ==
    IF s = <<>> THEN <<x>>
    ELSE IF Head(s).t <= x.t THEN <<Head(s)>> \o InsertByT(Tail(s), x)
    ELSE <<x>> \o s

\* SortByT leaving the events in insertion order
SortByT_unsorted(s) == s

RECURSIVE SortByT(_)
\* evs.sort_by(|a,b| a.0.partial_cmp(&b.0).unwrap_or(Equal)), a stable sort
SortByT(s) ==
    IF s = <<>> THEN <<>>
    ELSE InsertByT(SortByT(SubSeq(s, 1, Len(s) - 1)), s[Len(s)])

RECURSIVE TrackEvents(_, _, _)
\* the loop over the sorted evs, last_tick being the previous event's tick
TrackEvents(evs, ns, last_tick) ==
    IF evs = <<>> THEN <<>>
    ELSE LET ev == Head(evs)
             n == ns[ev.n]
             tick == MulDiv(Max(ev.t, 0), ppq, Sec)
             delta == Max(tick - last_tick, 0)
             kind == IF ev.is_on
                     THEN [msg |-> "NoteOn", key |-> Min(n.pitch, 127),
                           vel |-> Min(n.velocity, 127)]
                     ELSE [msg |-> "NoteOff", key |-> Min(n.pitch, 127), vel |-> 0]
         IN  <<[delta |-> delta % Pow2(28), kind |-> kind, n |-> ev.n]>>
             \o TrackEvents(Tail(evs), ns, tick)

\* MonophonicMidi::to_mid_bytes
to_mid_bytes(m) ==
    IF m.tempo_bpm = 0 THEN Panic("attempt to divide by zero")
    ELSE LET micros_per_quarter == 60000000 \div m.tempo_bpm
             tempo == [delta |-> 0,
                       kind |-> [msg |-> "Tempo", micros |-> micros_per_quarter % Pow2(24)],
                       n |-> 0]
             track == <<tempo>> \o TrackEvents(SortByT(MidiEvs(m.notes, 1)), m.notes, 0)
         IN  Ok([format |-> "SingleTrack", timing |-> ppq, tracks |-> <<track>>])

(***************************************************************************)
(* The synthesis state machine: a producer appends notes to a timeline,    *)
(* and the timeline is rendered with some sample rate and style.           *)
(***************************************************************************)
\* the notes a producer may append: well-formed ones of several durations,
\* one with velocity 0 and a pitch near the top of the range, one with
\* end = start and one with end < start
NoteSet ==
    { Note(64, Sec \div 2, Sec, 90),
      Note(125, Sec \div 4, Sec + Sec \div 4, 0),
      Note(62, Sec, Sec, 100),
      Note(67, 2 * Sec, Sec, 80) }
Tempos == {120}
SampleRates == {9, 20}
Layerings == {<<>>, <<"Sine">>, <<"Saw", "Sine", "Square">>}
\* <<swing, humanize>> in thousandths, inside and outside their ranges
Timings == {<<0, 0>>, <<200, 0>>, <<0, 100>>, <<200, 100>>, <<500, 500>>, <<-100, -100>>}
Polyphonies == {0, 1, 2, 3, 4}
\* the notes of a timeline that spans two 8-second sections: one at time 0
\* with velocity 0, one that starts before time 0 with velocity 1, and one in
\* the second section at the top of the pitch and velocity ranges
WideNoteSet ==
    { Note(60, 0, Sec \div 2, 0),
      Note(67, -(Sec \div 4), Sec \div 4, 1),
      Note(126, 8 * Sec + Sec \div 4, 8 * Sec + Sec \div 2, 127) }
WideTimings == {<<0, 0>>, <<200, 0>>, <<350, 400>>}
WideStyles ==
    { st \in { [layering |-> l, swing |-> t[1], humanize |-> t[2],
                polyphony |-> p, percussion |-> d, scale |-> sc] :
                l \in {<<"Sine">>, <<"Saw", "Sine", "Square">>}, t \in WideTimings,
                p \in {1, 2, 3}, d \in BOOLEAN, sc \in ScaleKind } :
        st.polyphony >= 2 \/ st.scale = "Major" }
\* the styles rendered; the scale is varied where it is read (polyphony >= 2)
Styles ==
    { st \in { [layering |-> l, swing |-> t[1], humanize |-> t[2],
                polyphony |-> p, percussion |-> d, scale |-> sc] :
                l \in Layerings, t \in Timings, p \in Polyphonies,
                d \in BOOLEAN, sc \in ScaleKind } :
        st.polyphony >= 2 \/ st.scale = "Major" }

VARIABLES
    \* MonophonicMidi.notes and MonophonicMidi.tempo_bpm
    notes, tempo_bpm,
    \* the most recent call and its arguments
    call,
    \* what the most recent call returned
    ret
vars == <<notes, tempo_bpm, call, ret>>

\* The note envelope.  Relative positions and envelope values are in
\* thousandths: EnvUnit is 1.0.
EnvUnit == 1000

\* the decay of the form (1 - rel)^1.5
ad_env_mirrored(rel) ==
    LET a == IF rel < EnvUnit \div 50 THEN rel * 50 ELSE EnvUnit
        back == EnvUnit - rel
        d == ISqrt((back * back * back) \div EnvUnit)
    IN  [a |-> a, d |-> d, env |-> (a * d) \div EnvUnit]

\* ad_env(rel), with its locals a and d; 0 <= rel <= EnvUnit
ad_env(rel) ==
    LET a == IF rel < EnvUnit \div 50 THEN rel * 50 ELSE EnvUnit
        d == EnvUnit - Min(ISqrt((rel * rel * rel) \div EnvUnit), EnvUnit)
    IN  [a |-> a, d |-> d, env |-> (a * d) \div EnvUnit]

\* the envelope render_note applies to the samples start..end-1 of its span:
\* one entry per sample, rel = (i - start) / max(end - start, 1)
note_envelope(out_len, sr, t_on, t_off) ==
    LET span == render_note(out_len, sr, t_on, t_off, 0)
    IN  IF span = <<>> THEN <<>>
        ELSE LET start == span[1].start
                 dur == Max(span[1].end - start, 1)
             IN  [k \in 1..(span[1].end - start) |->
                     LET rel == ((k - 1) * EnvUnit) \div dur
                         e == ad_env(rel)
                     IN  [i |-> start + k - 1, rel |-> rel, a |-> e.a, d |-> e.d, env |-> e.env]]

NoCall == [op |-> "none"]
NoRet == [status |-> "None"]
midi == [notes |-> notes, tempo_bpm |-> tempo_bpm]

\* MonophonicMidi::new
Init ==
    /\ notes = <<>>
    /\ tempo_bpm \in Tempos
    /\ call = NoCall
    /\ ret = NoRet

\* MonophonicMidi::push; only between calls, the engines being synchronous
Push(n) ==
    /\ call = NoCall
    /\ Len(notes) < MaxNotes
    /\ notes' = Append(notes, n)
    /\ UNCHANGED <<tempo_bpm, call, ret>>

\* render_wav_bytes_styled(&midi, sr, &style)
Render(sr, style) ==
    /\ call = NoCall
    /\ call' = [op |-> "render", sr |-> sr, style |-> style]
    /\ ret' = render_wav_bytes_styled(midi, sr, style)
    /\ UNCHANGED <<notes, tempo_bpm>>

\* render_note(&mut out, sr, _, t_on, t_off, _, _) on a buffer of out_len samples
RenderNote(out_len, sr, t_on, t_off) ==
    /\ call = NoCall
    /\ call' = [op |-> "render_note", len |-> out_len, sr |-> sr, t_on |-> t_on, t_off |-> t_off]
    /\ ret' = Ok(note_envelope(out_len, sr, t_on, t_off))
    /\ UNCHANGED <<notes, tempo_bpm>>

\* the caller takes the returned value
Return ==
    /\ call # NoCall
    /\ call' = NoCall
    /\ ret' = NoRet
    /\ UNCHANGED <<notes, tempo_bpm>>

\* the sample buffers handed to normalize_soft, in sixteenths of 1.0
SampleSet == {(v * One) \div 16 : v \in {0, 3, -8, 15, 16, 20, 30, -31, 48}}
Buffers == UNION {[1..n -> SampleSet] : n \in 0..MaxBuf}

\* normalize_soft(&mut out, 0.99)
NormalizeSoft(buf) ==
    /\ call = NoCall
    /\ call' = [op |-> "normalize_soft", buf |-> buf]
    /\ ret' = Ok(normalize_soft(buf, TargetPeak))
    /\ UNCHANGED <<notes, tempo_bpm>>

\* the inputs of analyze_mono
MonoVals == {-50, 0, 50}
Monos == UNION {[1..n -> MonoVals] : n \in 0..MaxMono}
\* longer buffers, of MaxLong samples: every pattern of up to MaxPattern
\* samples repeated, the steady signals (one frame after the other alike) and
\* the rhythmic ones among them
PatternVals == {-50, 0, 25, 50}
Repeated(p, n) == [i \in 1..n |-> p[((i - 1) % Len(p)) + 1]]
LongMonos == {Repeated(p, MaxLong) : p \in UNION {[1..k -> PatternVals] : k \in 1..MaxPattern}}
\* short buffers with samples at and beyond the ends of [-1, 1]
LoudVals == {-150, -100, 100, 150}
LoudMonos == [1..2 -> LoudVals]
\* buffers long enough for the F0 windows, in blocks of PitchBlock samples:
\* silence for the first `head` samples, then the pattern p repeated
PitchBlock == 256
PitchPatterns ==
    {<<0, 50>>, <<50, 0, 0>>, <<-50, 0, 50>>, <<25, 25, -25, -25>>, <<-50, 0, 50, 0>>}
Delayed(p, head, n) == [i \in 1..n |-> IF i <= head THEN 0 ELSE p[((i - 1) % Len(p)) + 1]]
PitchMonos ==
    {Delayed(p, h * PitchBlock, b * PitchBlock) :
        p \in PitchPatterns, h \in {0, 4}, b \in 4..MaxBlocks}
\* sample rates with the lag ranges 2..1 (empty), 2..2, 2..3 and 3..19
PitchRates == {120, 180, 240, 1200}
PitchHops == {128, 512}
AnalysisRates == {0, 8}
FrameSizes == {0, 1, 2, 4}
HopSizes == {0, 1, 2}

\* FeatureExtractor::new(_, fs, hop).analyze_mono(&mono, sr)
AnalyzeMono(fs, hop, mono, sr) ==
    /\ call = NoCall
    /\ call' = [op |-> "analyze_mono", frame_size |-> fs, hop_size |-> hop,
                mono |-> mono, sr |-> sr]
    /\ ret' = analyze_mono(fs, hop, mono, sr)
    /\ UNCHANGED <<notes, tempo_bpm>>

\* the notes appended to a timeline that is serialized: those of NoteSet and
\* one that starts before time 0
MidiNoteSet == NoteSet \cup {Note(60, -(Sec \div 2), Sec \div 4, 70)}
MidiTempos == {0, 90, 120}

\* MonophonicMidi::new, of any tempo
InitMidi ==
    /\ notes = <<>>
    /\ tempo_bpm \in MidiTempos
    /\ call = NoCall
    /\ ret = NoRet

\* midi.to_mid_bytes()
ToMidBytes ==
    /\ call = NoCall
    /\ call' = [op |-> "to_mid_bytes"]
    /\ ret' = to_mid_bytes(midi)
    /\ UNCHANGED <<notes, tempo_bpm>>

\* a call of each engine, with any of its inputs, between two calls
RenderCall ==
    call = NoCall /\ \E sr \in SampleRates, style \in Styles : Render(sr, style)
NormalizeCall ==
    call = NoCall /\ \E buf \in Buffers : NormalizeSoft(buf)
AnalyzeCall ==
    call = NoCall /\ \E fs \in FrameSizes, hop \in HopSizes, sr \in AnalysisRates,
                        mono \in Monos \cup LongMonos \cup LoudMonos :
                        AnalyzeMono(fs, hop, mono, sr)

\* with frames of one sample, whose spectrum is the single bin 0
WideRenderCall ==
    call = NoCall /\ \E style \in WideStyles : Render(9, style)
PitchCall ==
    call = NoCall /\ \E hop \in PitchHops, sr \in PitchRates, mono \in PitchMonos :
                        AnalyzeMono(1, hop, mono, sr)

\* the notes whose envelope is computed: spans of no sample, of one sample,
\* shorter and longer than the 50 samples of a 2% attack, cut by the buffer end
\* and starting before time 0
EnvRates == {8, 60, 100, 240}
EnvStarts == {-(Sec \div 4), 0, Sec \div 8, Sec \div 2}
EnvEnds == {0, Sec \div 4, Sec \div 2, Sec, Sec + Sec \div 2}
EnvLens == {0, 12, 400}
RenderNoteCall ==
    call = NoCall /\ \E len \in EnvLens, sr \in EnvRates, t_on \in EnvStarts, t_off \in EnvEnds :
                        RenderNote(len, sr, t_on, t_off)

Next ==
    \/ \E n \in NoteSet : Push(n)
    \/ RenderCall
    \/ Return

Spec == Init /\ [][Next]_vars

\* rendering of the timelines over WideNoteSet
NextWide ==
    \/ \E n \in WideNoteSet : Push(n)
    \/ WideRenderCall
    \/ Return

SpecWide == Init /\ [][NextWide]_vars

\* soft normalization alone, over every buffer of SampleSet
NextNorm ==
    \/ NormalizeCall
    \/ Return

SpecNorm == Init /\ [][NextNorm]_vars

\* feature extraction alone
NextAnalyze ==
    \/ AnalyzeCall
    \/ Return

SpecAnalyze == Init /\ [][NextAnalyze]_vars

\* feature extraction of buffers that have F0 windows
NextPitch ==
    \/ PitchCall
    \/ Return

SpecPitch == Init /\ [][NextPitch]_vars

\* the envelopes of single notes
NextEnv ==
    \/ RenderNoteCall
    \/ Return
SpecEnv == Init /\ [][NextEnv]_vars

\* serialization alone
NextMidi ==
    \/ \E n \in MidiNoteSet : Push(n)
    \/ ToMidBytes
    \/ Return

SpecMidi == InitMidi /\ [][NextMidi]_vars

(***************************************************************************)
(* Properties.                                                             *)
(***************************************************************************)
IsValidNote(n) == n.end > n.start
HasValidNote == \E i \in 1..Len(notes) : IsValidNote(notes[i])
\* the timeline's well-formed notes, in insertion order, as events
ValidEvents ==
    LET vs == SelectSeq(notes, IsValidNote)
    IN  [i \in 1..Len(vs) |-> NoteEv(vs[i].pitch, vs[i].start, vs[i].end, vs[i].velocity)]
\* the latest end time of a non-empty list of events
LatestEnd(evs) == CHOOSE t \in {evs[i].t_off : i \in 1..Len(evs)} :
                      \A i \in 1..Len(evs) : evs[i].t_off <= t
\* the peak absolute sample of a buffer
PeakAbs(buf) == IF buf = <<>> THEN 0
                ELSE CHOOSE a \in {Abs(buf[i]) : i \in 1..Len(buf)} :
                         \A i \in 1..Len(buf) : Abs(buf[i]) <= a
\* a style with every out-of-range value replaced by the nearest value in range
ClampedStyle(st) ==
    [st EXCEPT !.swing = Clamp(st.swing, 0, 350),
               !.humanize = Clamp(st.humanize, 0, 400),
               !.polyphony = Clamp(st.polyphony, 1, 3)]

Rendered == call.op = "render"
RenderedOk == call.op = "render" /\ ret.status = "Ok"
Normalized == call.op = "normalize_soft"
Analyzed == call.op = "analyze_mono"

\* C1: analyze_mono returns an error whenever the buffer is empty or the
\* sample rate is 0, and a complete report for every non-empty buffer with
\* sample rate > 0 and hop_size >= 1, whatever frame_size is.
C1_AnalyzeErrorOrReport ==
    Analyzed =>
        /\ (call.mono = <<>> \/ call.sr = 0) => ret.status = "Err"
        /\ (call.mono # <<>> /\ call.sr > 0 /\ call.hop_size >= 1) => ret.status = "Ok"

\* C2: render returns an error and no audio when the timeline has zero notes
\* (the collect_events error when the layering is non-empty), and returns a
\* buffer whenever the timeline has a note with end > start and the layering
\* list is non-empty.
C2_RenderErrorOrBuffer ==
    Rendered =>
        /\ notes = <<>> => ret.status = "Err"
        /\ (notes = <<>> /\ call.style.layering # <<>>)
              => ret = Err("No notes in MonophonicMidi (collect_events)")
        /\ (HasValidNote /\ call.style.layering # <<>>) => ret.status = "Ok"

C2_Witness ==
    /\ Rendered
    /\ notes = <<>>
    /\ call.style.layering # <<>>
    /\ ret.status = "Err"

\* C3: rendering a non-empty timeline in which every note has end <= start
\* succeeds and yields exactly the trailing silence: sample_rate/2 samples,
\* none of them written to.
C3_AllMalformedRendersSilence ==
    (Rendered /\ notes # <<>> /\ ~HasValidNote /\ call.style.layering # <<>>) =>
        /\ ret.status = "Ok"
        /\ ret.value.len = call.sr \div 2
        /\ ret.value.writes = <<>>

\* C4: the working event list of render is exactly the notes with end > start,
\* in insertion order, and the notes with end <= start influence neither the
\* samples written nor the output length: the result is that of rendering the
\* timeline with those notes removed.
C4_OnlyValidNotesRendered ==
    RenderedOk =>
        /\ ret.value.collected = ValidEvents
        /\ ret = render_wav_bytes_styled(
                    [notes |-> SelectSeq(notes, IsValidNote), tempo_bpm |-> tempo_bpm],
                    call.sr, call.style)

C4_Witness ==
    /\ RenderedOk
    /\ Len(notes) = 3
    /\ IsValidNote(notes[1]) /\ ~IsValidNote(notes[2]) /\ IsValidNote(notes[3])
    /\ notes[2].end = notes[2].start
    /\ call.style.swing = 200
    /\ Len(ret.value.collected) = 2

\* C6 (as stated): after soft normalization the peak absolute sample never
\* exceeds 0.99.
C6_PeakNeverExceedsTarget ==
    Normalized => PeakAbs(ret.value) <= TargetPeak

\* C6 (amended): after soft normalization the peak absolute sample never
\* exceeds 0.99 by more than one unit in the last place, and when the peak
\* before exceeds 0.99 every sample is multiplied by the same factor
\* 0.99 / peak.
C6_PeakWithinOneUlp ==
    Normalized =>
        /\ PeakAbs(ret.value) <= FlSucc(TargetPeak)
        /\ PeakAbs(call.buf) > TargetPeak =>
              \A i \in 1..Len(call.buf) :
                  ret.value[i] = FlMul(call.buf[i], FlDiv(TargetPeak, PeakAbs(call.buf)))

C6_Witness ==
    /\ Normalized
    /\ Len(call.buf) >= 2
    /\ PeakAbs(call.buf) > TargetPeak
    /\ PeakAbs(ret.value) > TargetPeak

\* C7: soft normalization applies no upward gain: a buffer whose peak is
\* <= 0.99 (an all-zero buffer included) is left unchanged, and the output
\* peak is never above the input peak.
C7_NoUpwardGain ==
    Normalized =>
        /\ PeakAbs(call.buf) <= TargetPeak => ret.value = call.buf
        /\ PeakAbs(ret.value) <= PeakAbs(call.buf)

C7_Witness ==
    /\ Normalized
    /\ Len(call.buf) >= 2
    /\ PeakAbs(call.buf) > 0
    /\ PeakAbs(call.buf) < TargetPeak
    /\ ret.value = call.buf

C9_StyleNeverRejected ==
    (Rendered /\ HasValidNote) => ret.status = "Ok"

\* C10: out-of-range style values behave as the nearest value in range:
\* swing as clamped to [0, 0.35], humanize as clamped to [0, 0.4] and
\* polyphony as clamped to [1, 3] give the same event list.
C10_OutOfRangeClamped ==
    RenderedOk =>
        LET clamped == render_wav_bytes_styled(midi, call.sr, ClampedStyle(call.style))
        IN  /\ clamped.status = "Ok"
            /\ ret.value.events = clamped.value.events

C10_Witness ==
    /\ RenderedOk
    /\ call.style.swing = 500
    /\ call.style.humanize = 500
    /\ call.style.polyphony = 4
    /\ Len(ret.value.collected) >= 2
    /\ Len(ret.value.events) = 3 * Len(ret.value.collected)

\* C11: the BPM render uses for swing scaling and the percussion grid is the
\* timeline's own tempo; the median-duration estimate never replaces a
\* supplied tempo.
C11_SuppliedTempoUsed ==
    RenderedOk => ret.value.bpm = 1000 * tempo_bpm

\* to_mid_bytes has returned the file's contents
Serialized == call.op = "to_mid_bytes" /\ ret.status = "Ok"
\* the only track of the file
Track == ret.value.tracks[1]
\* the time in seconds (here in microseconds) a note event stands for
EvTime(e) == IF e.kind.msg = "NoteOn" THEN notes[e.n].start ELSE notes[e.n].end
RECURSIVE TickAt(_, _)
\* the absolute tick of event i of a track: the sum of the deltas up to it
TickAt(tr, i) == IF i = 0 THEN 0 ELSE tr[i].delta + TickAt(tr, i - 1)
\* the positions in the track of the events of kind msg made from note k
EventsOf(tr, k, msg) == {i \in 2..Len(tr) : tr[i].n = k /\ tr[i].kind.msg = msg}

\* C15: the file has a single track that starts with the only tempo
\* meta-event, at delta 0; the note events follow in non-decreasing time
\* order, each at tick = seconds * 480 with a non-negative delta equal to the
\* tick difference; every note that is serialized has one note-on and one
\* note-off; every note with end > start is serialized and its note-on comes
\* before its note-off.
C15_TrackShape ==
    Serialized =>
        LET tr == Track
        IN  /\ Len(ret.value.tracks) = 1
            /\ ret.value.timing = 480
            /\ tr[1].kind.msg = "Tempo" /\ tr[1].delta = 0
            /\ \A i \in 2..Len(tr) :
                  /\ tr[i].kind.msg \in {"NoteOn", "NoteOff"}
                  /\ tr[i].delta >= 0
                  /\ TickAt(tr, i) = (IF EvTime(tr[i]) > 0 THEN EvTime(tr[i]) * 480 ELSE 0) \div Sec
            /\ \A i, j \in 2..Len(tr) : i < j => EvTime(tr[i]) <= EvTime(tr[j])
            /\ \A k \in 1..Len(notes) :
                  /\ Cardinality(EventsOf(tr, k, "NoteOn")) = Cardinality(EventsOf(tr, k, "NoteOff"))
                  /\ Cardinality(EventsOf(tr, k, "NoteOn")) <= 1
                  /\ IsValidNote(notes[k]) =>
                        \E i \in EventsOf(tr, k, "NoteOn"), j \in EventsOf(tr, k, "NoteOff") : i < j

\* a timeline whose notes were appended out of chronological order, one of
\* them starting before time 0, has been serialized
C15_Witness ==
    /\ Serialized
    /\ \E i, j \in 1..Len(notes) :
          /\ i < j /\ notes[j].start < notes[i].start
          /\ IsValidNote(notes[i]) /\ IsValidNote(notes[j])
    /\ \E i \in 1..Len(notes) : notes[i].start < 0

\* C16: a note with end <= start is skipped at serialization: the track has
\* no note-on and no note-off made from it.
C16_MalformedSkipped ==
    Serialized => \A i \in 2..Len(Track) : IsValidNote(notes[Track[i].n])

\* analyze_mono has returned a report
AnalyzedOk == call.op = "analyze_mono" /\ ret.status = "Ok"
\* the buffer analysed and the report returned
Mono == call.mono
Rpt == ret.value
\* the adjacent pairs of the buffer with exactly one negative sample
Crossings == {i \in 1..(Len(Mono) - 1) : (Mono[i] < 0) # (Mono[i + 1] < 0)}
\* the fields of the report that come from frames, the histogram and the
\* pitch windows
FrameFields ==
    << Rpt.onset_rate, Rpt.tempo_bpm, Rpt.spectral_centroid_hz,
       Rpt.spectral_rolloff85_hz, Rpt.spectral_rolloff95_hz, Rpt.spectral_flatness,
       Rpt.spectral_bandwidth_hz, Rpt.spectral_entropy, Rpt.amplitude_entropy,
       Rpt.f0.mean_hz, Rpt.f0.std_hz, Rpt.f0.voiced_ratio >>
\* the sum of the squares of the samples
SumSquares == SumSeq([i \in DOMAIN Mono |-> Mono[i] * Mono[i]])

\* C12: for a non-empty buffer shorter than frame_size the report has
\* onset_rate, tempo_bpm, the six spectral fields, amplitude_entropy and the
\* three F0 fields exactly 0, and rms, peak, crest_factor and zcr computed
\* from the samples.
C12_ShortBufferReport ==
    (Analyzed /\ Mono # <<>> /\ call.sr > 0 /\ Len(Mono) < call.frame_size) =>
        /\ ret.status = "Ok"
        /\ \A i \in DOMAIN FrameFields : FrameFields[i] = 0
        /\ Rpt.peak = PeakAbs(Mono)
        /\ Rpt.rms * Rpt.rms * Len(Mono) <= 100 * SumSquares
        /\ (Rpt.rms + 1) * (Rpt.rms + 1) * Len(Mono) > 100 * SumSquares
        /\ Rpt.crest_factor = (IF Rpt.rms > 0 THEN RoundDiv(10000 * Rpt.peak, Rpt.rms) ELSE 0)
        /\ Rpt.zcr = RoundDiv(1000 * Cardinality(Crossings) * call.sr, Max(Len(Mono) - 1, 1))

\* a buffer shorter than the frame, with a non-zero sample and a zero crossing
C12_Witness ==
    /\ AnalyzedOk /\ Len(Mono) < call.frame_size
    /\ Rpt.peak > 0 /\ Rpt.zcr > 0 /\ Rpt.crest_factor > 1000

\* C13: for an all-zero buffer of any positive length every field of the
\* report is exactly 0.
C13_ZeroBufferZeroReport ==
    (AnalyzedOk /\ \A i \in DOMAIN Mono : Mono[i] = 0) =>
        /\ \A i \in DOMAIN FrameFields : FrameFields[i] = 0
        /\ Rpt.rms = 0 /\ Rpt.peak = 0 /\ Rpt.crest_factor = 0 /\ Rpt.zcr = 0

\* every analysis frame has the same non-zero magnitude spectrum
Steady ==
    /\ AnalyzedOk /\ Rpt.n_frames >= 1
    /\ \A fi \in 1..Rpt.n_frames : Rpt.mags[fi] = Rpt.mags[1]
    /\ \E j \in DOMAIN Rpt.mags[1] : Rpt.mags[1][j] > 0

\* C14: for a steady signal no frame is counted as an onset, so onset_rate
\* is 0, and tempo_bpm is 0.
C14_SteadyNoOnset ==
    Steady => Rpt.onset_rate = 0 /\ Rpt.tempo_bpm = 0

\* C17: for N >= frame_size and hop_size >= 1 the frames start at k * hop_size
\* for k = 0 .. (N - frame_size) / hop_size; every frame lies inside the
\* buffer and no further frame would.
C17_FramesCoverBuffer ==
    (AnalyzedOk /\ Len(Mono) >= call.frame_size /\ call.hop_size >= 1) =>
        LET N == Len(Mono)
            last == (N - call.frame_size) \div call.hop_size
        IN  /\ Rpt.n_frames = 1 + last
            /\ Len(Rpt.frames) = Rpt.n_frames
            /\ Len(Rpt.mags) = Rpt.n_frames
            /\ \A k \in 0..last :
                  /\ Rpt.frames[k + 1] = k * call.hop_size
                  /\ k * call.hop_size + call.frame_size <= N
            /\ (last + 1) * call.hop_size + call.frame_size > N

\* several frames, the last one ending before the end of the buffer
C17_Witness ==
    /\ AnalyzedOk /\ Rpt.n_frames >= 3 /\ call.hop_size = 2
    /\ Rpt.frames[Rpt.n_frames] + call.frame_size < Len(Mono)

\* C18: the zero-crossing count is the number of adjacent pairs with exactly
\* one negative sample, zcr = count * sample_rate / (N - 1), and for N = 1
\* the count and zcr are 0.
C18_ZeroCrossingRate ==
    AnalyzedOk =>
        /\ Rpt.zc = Cardinality(Crossings)
        /\ Len(Mono) >= 2 => Rpt.zcr = RoundDiv(1000 * Rpt.zc * call.sr, Len(Mono) - 1)
        /\ Len(Mono) = 1 => Rpt.zc = 0 /\ Rpt.zcr = 0

\* a buffer where a zero is followed by a negative sample (counted) and
\* another zero by a positive one (not counted)
C18_Witness ==
    /\ AnalyzedOk
    /\ \E i \in 1..(Len(Mono) - 1) : Mono[i] = 0 /\ Mono[i + 1] < 0
    /\ \E i \in 1..(Len(Mono) - 1) : Mono[i] = 0 /\ Mono[i + 1] > 0
    /\ Rpt.zc = 1

\* bin k is the smallest bin of mag whose cumulative magnitude reaches pct
\* percent of the total
IsSmallestBin(mag, k, pct) ==
    LET total == SumSeq(mag)
        cum == [j \in 0..(Len(mag) - 1) |-> SumSeq(SubSeq(mag, 1, j + 1))]
    IN  /\ k \in DOMAIN cum
        /\ 100 * cum[k] >= pct * total
        /\ \A j \in 0..(k - 1) : 100 * cum[j] < pct * total

\* C19: in every frame with total magnitude > 0 the rolloff-85 and
\* rolloff-95 bins are the smallest bins whose cumulative magnitude reaches
\* 85% and 95% of the total; with total 0 both are 0; and the rolloff-85 bin
\* is never above the rolloff-95 bin.
C19_RolloffBins ==
    AnalyzedOk =>
        \A fi \in 1..Rpt.n_frames :
            LET mag == Rpt.mags[fi]
                r == Rpt.rolloffs[fi]
            IN  /\ SumSeq(mag) > 0 =>
                      IsSmallestBin(mag, r[1], 85) /\ IsSmallestBin(mag, r[2], 95)
                /\ SumSeq(mag) = 0 => r = <<0, 0>>
                /\ r[1] <= r[2]

\* a frame whose rolloff-85 bin is below its rolloff-95 bin
C19_Witness ==
    /\ AnalyzedOk
    /\ \E fi \in 1..Rpt.n_frames : Rpt.rolloffs[fi][1] < Rpt.rolloffs[fi][2]

\* the mean of flux[i] * flux[i - lag] over the frames i >= lag
MeanLagProduct(lag) ==
    LET f == Rpt.flux_vals
        prods == {<<i, f[i] * f[i - lag]>> : i \in (lag + 1)..Len(f)}
        RECURSIVE Total(_)
        Total(ps) == IF ps = {} THEN 0
                     ELSE LET p == CHOOSE p \in ps : TRUE IN p[2] + Total(ps \ {p})
    IN  RoundDiv(Total(prods), Len(f) - lag)
\* the lags whose candidate BPM is in [50, 200] and whose autocorrelation is > 0
QualifyingLags ==
    {lag \in 1..(Rpt.n_frames - 1) :
        /\ 60 * call.sr >= 50 * call.hop_size * lag
        /\ 60 * call.sr <= 200 * call.hop_size * lag
        /\ MeanLagProduct(lag) > 0}
\* the smallest of the qualifying lags with the highest autocorrelation
BestLag ==
    LET q == QualifyingLags
        ac == [lag \in q |-> MeanLagProduct(lag)]
    IN  CHOOSE lag \in q : \A m \in q : ac[m] < ac[lag] \/ (ac[m] = ac[lag] /\ lag <= m)

\* C20: tempo_bpm is 0 or in [50, 200]; it is 0 with fewer than 4 frames or
\* with no qualifying lag, and otherwise the candidate BPM
\* 60 * (sample_rate / hop_size) / lag of the qualifying lag with the highest
\* autocorrelation, the smallest such lag winning ties.
C20_TempoFromBestLag ==
    (AnalyzedOk /\ ~Rpt.short) =>
        /\ Rpt.tempo_bpm = 0 \/ (Rpt.tempo_bpm >= 50000 /\ Rpt.tempo_bpm <= 200000)
        /\ Rpt.n_frames < 4 => Rpt.tempo_bpm = 0
        /\ Rpt.n_frames >= 4 =>
              LET q == QualifyingLags
              IN  /\ q = {} => Rpt.tempo_bpm = 0
                  /\ q # {} => Rpt.tempo_bpm = RoundDiv(60000 * call.sr, call.hop_size * BestLag)

\* a run of at least 4 frames where two qualifying lags share the highest
\* autocorrelation among the qualifying lags, and a tempo was found
C20_Witness ==
    /\ AnalyzedOk /\ Rpt.n_frames >= 4 /\ Rpt.tempo_bpm > 0
    /\ \E l1, l2 \in DOMAIN Rpt.ac :
          /\ l1 < l2 /\ l1 \in QualifyingLags /\ l2 \in QualifyingLags
          /\ Rpt.ac[l1] = Rpt.ac[l2]
          /\ \A m \in QualifyingLags : Rpt.ac[m] <= Rpt.ac[l1]

\* the F0 windows of the run, their length and their step
PitchWin == Max(call.sr \div 50, 1024)
PitchStep == Max(call.hop_size, 256)
VoicedWindows == {k \in DOMAIN Rpt.pitch : Rpt.pitch[k].voiced}

\* C21: the pitch windows are those at the offsets 0, step, 2*step, ... with
\* i + win <= N, and voiced_ratio is the number of voiced windows divided by
\* the number of windows examined: between 0 and 1, and 1 when every window
\* is voiced.
C21_VoicedRatio ==
    (AnalyzedOk /\ ~Rpt.short) =>
        LET ws == Rpt.pitch
        IN  /\ {ws[k].i : k \in DOMAIN ws} =
                   {i \in 0..Len(Mono) : i % PitchStep = 0 /\ i + PitchWin <= Len(Mono)}
            /\ \A k \in DOMAIN ws : ws[k].len = PitchWin
            /\ Rpt.f0.voiced_ratio >= 0 /\ Rpt.f0.voiced_ratio <= 1000
            /\ ws # <<>> =>
                  Rpt.f0.voiced_ratio = RoundDiv(1000 * Cardinality(VoicedWindows), Len(ws))

\* C22: in every pitch window the lags examined are all of sr/400 .. sr/60,
\* each is smaller than the window length, and a window where no lag scores
\* above 0 is unvoiced; when no window is voiced no pitch is reported.
C22_LagSearch ==
    (AnalyzedOk /\ ~Rpt.short) =>
        /\ \A k \in DOMAIN Rpt.pitch :
              LET w == Rpt.pitch[k]
              IN  /\ {w.lags[j] : j \in DOMAIN w.lags} = (call.sr \div 400)..(call.sr \div 60)
                  /\ \A j \in DOMAIN w.lags : w.lags[j] < w.len
                  /\ w.best_v <= 0 => ~w.voiced
        /\ VoicedWindows = {} => Rpt.f0.mean_hz = 0 /\ Rpt.f0.voiced_ratio = 0

\* C22 (amended): in every pitch window the lags examined are those from
\* max(sr/400, 2) up to, but not including, sr/60; each is smaller than the
\* window length; a window where no lag scores above 0, as when the range is
\* empty (sr < 180), is unvoiced; when no window is voiced no pitch is
\* reported.
C22_LagSearchHalfOpen ==
    (AnalyzedOk /\ ~Rpt.short) =>
        /\ \A k \in DOMAIN Rpt.pitch :
              LET w == Rpt.pitch[k]
                  first == Max(call.sr \div 400, 2)
                  last == call.sr \div 60 - 1
              IN  /\ w.lags = [j \in 1..Max(last - first + 1, 0) |-> first + j - 1]
                  /\ \A j \in DOMAIN w.lags : w.lags[j] < w.len
                  /\ w.best_v <= 0 => ~w.voiced
                  /\ call.sr < 180 => w.lags = <<>> /\ ~w.voiced
        /\ VoicedWindows = {} => Rpt.f0.mean_hz = 0 /\ Rpt.f0.voiced_ratio = 0

\* a run at a sample rate of at least 800 with a voiced window whose search
\* examined several lags, next to a window where every lag scored 0 or less
C22_Witness ==
    /\ AnalyzedOk /\ ~Rpt.short /\ call.sr >= 800
    /\ \E k \in DOMAIN Rpt.pitch : Rpt.pitch[k].voiced /\ Len(Rpt.pitch[k].lags) > 1
    /\ \E k \in DOMAIN Rpt.pitch : Rpt.pitch[k].lags # <<>> /\ Rpt.pitch[k].best_v = 0

\* C23: the histogram has 64 bins, every sample is counted in exactly one of
\* them (the counts sum to N), samples below -1 are counted in bin 0 and
\* samples above 1 in bin 63, and when all samples fall in one bin the
\* amplitude entropy is exactly 0.
C23_HistogramBins ==
    (AnalyzedOk /\ ~Rpt.short) =>
        LET hist == Rpt.hist
            n == Len(Mono)
        IN  /\ DOMAIN hist = 1..64
            /\ \A b \in 1..64 : hist[b] >= 0
            /\ SumSeq(hist) = n
            /\ hist[1] >= Cardinality({i \in DOMAIN Mono : Mono[i] < -100})
            /\ hist[64] >= Cardinality({i \in DOMAIN Mono : Mono[i] >= 100})
            /\ (\E b \in 1..64 : hist[b] = n) => Rpt.amplitude_entropy = 0
            /\ Rpt.amplitude_entropy >= 0 /\ Rpt.amplitude_entropy <= 1000

\* a buffer of two different samples above 1, both counted in bin 63
C23_Witness ==
    /\ AnalyzedOk /\ ~Rpt.short
    /\ Len(Mono) = 2 /\ Mono[1] > 100 /\ Mono[2] = 100
    /\ Rpt.hist[64] = 2 /\ Rpt.amplitude_entropy = 0

\* C30: a frame is reported as an onset only when its flux is a local
\* maximum of the flux sequence, and no frame is reported as an onset in the 2
\* frames that follow a reported onset.
C30_PeakPickedOnsets ==
    (AnalyzedOk /\ ~Rpt.short) =>
        LET flux == Rpt.flux_vals
            on == Rpt.onset_frames
        IN  /\ Rpt.onset_rate = RoundDiv(Cardinality(on) * call.sr * 1000, Len(Mono))
            /\ \A f \in on :
                  /\ f > 1 => flux[f] >= flux[f - 1]
                  /\ f < Len(flux) => flux[f] >= flux[f + 1]
                  /\ \A g \in on : g > f => g > f + 2

\* the swing delay of the render: swing * 0.5 * eighth, swing as clamped
SwingShift ==
    LET swing == Clamp(call.style.swing, 0, 350)
        eighth == MulDiv(30 * Sec, 1000, ret.value.bpm)
    IN  RoundDiv(swing * eighth, 2000)
\* the event e delayed by d
Delayed_by(e, d) == NoteEv(e.pitch, e.t_on + d, e.t_off + d, e.velocity)
\* the 0-based timeline position of the k-th valid note
TimelinePos(k) ==
    LET valid == {i \in 1..Len(notes) : IsValidNote(notes[i])}
    IN  (CHOOSE i \in valid : Cardinality({j \in valid : j < i}) = k - 1) - 1
\* the working events after the swing stage alone, the events delayed being
\* those whose position pos(k) is odd; the humanize jitter comes on top of it
SwungBy(pos(_)) ==
    LET evs == ret.value.collected
        shifted == [k \in 1..Len(evs) |->
                       IF pos(k) % 2 = 1 THEN Delayed_by(evs[k], SwingShift) ELSE evs[k]]
    IN  apply_swing_and_humanize(shifted, 0, call.style.humanize, ret.value.bpm)
\* every event rendered has the times and velocity of a working event of the
\* swing-and-humanize stage
ClonesKeepTimes ==
    \A j \in 1..Len(ret.value.events) : \E k \in 1..Len(ret.value.swung) :
        LET e == ret.value.events[j]
            o == ret.value.swung[k]
        IN  e.t_on = o.t_on /\ e.t_off = o.t_off /\ e.velocity = o.velocity

C25_StageBounds ==
    RenderedOk =>
        /\ \A k \in 1..Len(ret.value.swung) :
              LET e == ret.value.swung[k]
              IN  /\ e.t_on >= 0
                  /\ e.t_off > e.t_on
                  /\ call.style.humanize > 0 => e.velocity >= 1 /\ e.velocity <= 127
        /\ (call.style.swing <= 0 /\ call.style.humanize <= 0)
              => ret.value.swung = ret.value.collected

\* C25 (amended): start >= 0 holds with humanize > 0; with humanize = 0 the
\* start is the note's own start, plus the swing delay if any, and is
\* negative for a note that starts before time 0.
C25_StageBoundsHumanized ==
    RenderedOk =>
        /\ Len(ret.value.swung) = Len(ret.value.collected)
        /\ \A k \in 1..Len(ret.value.swung) :
              LET e == ret.value.swung[k]
                  o == ret.value.collected[k]
              IN  /\ call.style.humanize > 0 => e.t_on >= 0
                  /\ call.style.humanize <= 0 =>
                        /\ e.t_on \in {o.t_on, o.t_on + SwingShift}
                        /\ e.t_off - e.t_on = o.t_off - o.t_on
                        /\ e.velocity = o.velocity
                  /\ e.t_off > e.t_on
                  /\ e.pitch = o.pitch
                  /\ call.style.humanize > 0 => e.velocity >= 1 /\ e.velocity <= 127
        /\ (call.style.swing <= 0 /\ call.style.humanize <= 0)
              => ret.value.swung = ret.value.collected

\* a render with humanize > 0 of a note of velocity 0 that starts at time 0
\* and of a note that starts before time 0: both start at 0 with velocity 1
C25_Witness ==
    /\ RenderedOk /\ call.style.humanize > 0
    /\ \E k, m \in 1..Len(ret.value.swung) :
          /\ ret.value.collected[k].velocity = 0 /\ ret.value.collected[k].t_on = 0
          /\ ret.value.swung[k].velocity = 1 /\ ret.value.swung[k].t_on = 0
          /\ ret.value.collected[m].t_on < 0 /\ ret.value.swung[m].t_on = 0

\* the number of voices of the render, and the events before the expansion
Voices == Clamp(call.style.polyphony, 1, 3)
\* the clones of the events evs at `semi` semitones above, pitches capped at 127
ClonesAt(evs, semi) ==
    [k \in 1..Len(evs) |->
        NoteEv(Min(evs[k].pitch + semi, 127), evs[k].t_on, evs[k].t_off, evs[k].velocity)]
\* the events the expansion is to yield, in any order
ExpectedVoices ==
    LET base == ret.value.swung
        third == ClonesAt(base, IF call.style.scale = "Major" THEN 4 ELSE 3)
        fifth == ClonesAt(base, 7)
    IN  IF Voices = 1 THEN base
        ELSE IF Voices = 2 THEN base \o third
        ELSE base \o third \o fifth
\* s and t hold the same elements the same number of times
SameElements(s, t) ==
    /\ Len(s) = Len(t)
    /\ \A j \in 1..Len(t) :
          Cardinality({i \in 1..Len(s) : s[i] = t[j]}) = Cardinality({i \in 1..Len(t) : t[i] = t[j]})
SortedByStart(evs) == \A i, j \in 1..Len(evs) : i < j => evs[i].t_on <= evs[j].t_on

\* C26: polyphony expansion of n events in p voices yields p * n events: the
\* originals, for p >= 2 a clone of each at +4 (major) or +3 (minor), for
\* p = 3 a clone of each at +7, each clone with its original's start, end and
\* velocity and its pitch capped at 127; the list is in start-time order.
C26_ExpansionSorted ==
    RenderedOk =>
        /\ Len(ret.value.events) = Voices * Len(ret.value.swung)
        /\ SameElements(ret.value.events, ExpectedVoices)
        /\ SortedByStart(ret.value.events)

\* C26 (amended): the list is in start-time order for p >= 2; for p = 1 it is
\* the list of the originals, in their order.
C26_ExpansionSortedFrom2 ==
    RenderedOk =>
        /\ Len(ret.value.events) = Voices * Len(ret.value.swung)
        /\ SameElements(ret.value.events, ExpectedVoices)
        /\ Voices >= 2 => SortedByStart(ret.value.events)
        /\ Voices = 1 => ret.value.events = ret.value.swung

\* three voices of two notes, the later one first in the timeline, with a
\* clone whose pitch was capped at 127
C26_Witness ==
    /\ RenderedOk /\ Voices = 3
    /\ Len(ret.value.swung) = 2 /\ Len(ret.value.events) = 6
    /\ ret.value.swung[1].t_on > ret.value.swung[2].t_on
    /\ \E k \in 1..2 : ret.value.swung[k].pitch + 4 > 127
    /\ \E j \in 1..6 : ret.value.events[j].pitch = 127

\* the layers event idx (0-based) was rendered through, in the order of the
\* calls of render_note
LayersOf(idx) ==
    LET cs == SelectSeq(ret.value.calls, LAMBDA c : c.src.idx = idx)
    IN  [k \in 1..Len(cs) |->
            LayerSpec(cs[k].src.osc, cs[k].src.detune_cents, cs[k].src.gain)]
\* the recipes of the configured layers, by position in the list
Recipes == layering_specs(call.style.layering)
\* the rotation of the layers of event idx
RotationOf(idx) ==
    (Max(ret.value.events[idx + 1].t_on, 0) \div (8 * Sec) + idx \div 32) % Len(Recipes)

\* C27: render_note is called once per event and configured layer; the
\* layers of an event are the configured recipes, rotated by
\* (floor(start / 8 s) + index / 32) mod layer-count, so every event gets the
\* same recipes, each with the oscillator of its position in the configured
\* list, position 0 with zero detune and the largest gain.
C27_LayersPermuted ==
    RenderedOk =>
        LET n == Len(ret.value.events)
            l == Len(call.style.layering)
        IN  /\ Len(ret.value.calls) = n * l
            /\ Len(Recipes) = l
            /\ \A k \in 1..l : Recipes[k].osc = call.style.layering[k]
            /\ Recipes[1].detune_cents = 0
            /\ \A k \in 2..l : Recipes[k].gain < Recipes[1].gain
            /\ \A idx \in 0..(n - 1) :
                  /\ Len(LayersOf(idx)) = l
                  /\ SameElements(LayersOf(idx), Recipes)
                  /\ \A k \in 1..l :
                        LayersOf(idx)[k] = Recipes[((k - 1 + RotationOf(idx)) % l) + 1]

\* three layers and events in two sections: one rendered through the layers
\* in the configured order, one through the layers rotated by one
C27_Witness ==
    /\ RenderedOk /\ Len(call.style.layering) = 3
    /\ \E i, j \in 0..(Len(ret.value.events) - 1) :
          /\ RotationOf(i) = 0 /\ LayersOf(i) = Recipes
          /\ RotationOf(j) = 1 /\ LayersOf(j)[1] = Recipes[2] /\ LayersOf(j)[3] = Recipes[1]

\* the writes of the percussion pass
DrumWrites ==
    {ret.value.writes[i] : i \in {j \in DOMAIN ret.value.writes :
                                     ret.value.writes[j].kind \in {"kick", "snare", "hat"}}}

\* the eighth-note positions before the buffer end, at the rendered BPM
GridEighth == MulDiv(60 * Sec, 1000, ret.value.bpm) \div 2
GridPositions ==
    {idx \in 0..((ret.value.len * Sec) \div (call.sr * GridEighth)) :
        idx * GridEighth * call.sr < ret.value.len * Sec}

\* the hit of one kind at a position, none when its span does not fit or is empty
GridHit(kind, idx, delay, dur) ==
    LET hit == DrumHit(kind, idx, ret.value.len, call.sr, idx * GridEighth + delay, dur)
    IN  {hit[i] : i \in DOMAIN hit}

\* C28: with percussion enabled the drum writes are those of the fixed grid:
\* at every eighth-note position before the buffer end a hi-hat, at positions
\* with idx mod 8 in {0, 4} a kick, at positions with idx mod 8 in {2, 6} a
\* snare, nothing else, each hit left out when its span would end past the
\* buffer; the grid is a function of BPM and buffer length alone.
C28_DrumGrid ==
    (RenderedOk /\ call.style.percussion) =>
        /\ \A w \in DrumWrites : 0 <= w.start /\ w.start < w.end /\ w.end <= ret.value.len
        /\ DrumWrites =
              UNION {GridHit("hat", idx, 0, 50000) : idx \in GridPositions}
              \cup UNION {GridHit("kick", idx, 0, 180000) :
                            idx \in {i \in GridPositions : i % 8 \in {0, 4}}}
              \cup UNION {GridHit("snare", idx, 5000, 140000) :
                            idx \in {i \in GridPositions : i % 8 \in {2, 6}}}

Enveloped == call.op = "render_note"

\* p is x^1.5 in thousandths, rounded down: p^2 <= x^3 < (p + 1)^2
IsPow15(p, x) ==
    /\ p >= 0
    /\ p * p <= (x * x * x) \div EnvUnit
    /\ (x * x * x) \div EnvUnit < (p + 1) * (p + 1)

\* the linear attack over the first 2% of the span
Attack(rel) == IF 50 * rel < EnvUnit THEN 50 * rel ELSE EnvUnit

\* the envelope is 0 at the first sample, within [0, 1], does not rise after
\* the attack, and at the last of n samples is at most 1.5 / n
EnvelopeRange ==
    LET env == ret.value
        n == Len(env)
    IN  /\ n > 0 => env[1].env = 0
        /\ \A k \in 1..n : 0 <= env[k].env /\ env[k].env <= EnvUnit
        /\ \A k \in 1..(n - 1) : env[k].rel >= EnvUnit \div 50 => env[k + 1].env <= env[k].env
        /\ n > 1 => env[n].env <= (3 * EnvUnit) \div (2 * n) + 3

\* C29: the envelope at relative position rel of the note's sample span is
\* attack(rel) * (1 - rel)^1.5, attack(rel) = rel / 0.02 below 0.02 and 1 from
\* there on; it is 0 at the first sample, within [0, 1], and falls towards 0
\* at the last sample.
C29_EnvelopeDecay ==
    Enveloped =>
        /\ \A k \in DOMAIN ret.value :
              LET s == ret.value[k]
              IN  /\ s.rel = ((k - 1) * EnvUnit) \div Len(ret.value)
                  /\ s.a = Attack(s.rel)
                  /\ IsPow15(s.d, EnvUnit - s.rel)
                  /\ s.env = (s.a * s.d) \div EnvUnit
        /\ EnvelopeRange

\* C29, amended: the decay factor is 1 - rel^1.5, the rest as claimed.
C29_EnvelopeDecayComplement ==
    Enveloped =>
        /\ \A k \in DOMAIN ret.value :
              LET s == ret.value[k]
              IN  /\ s.rel = ((k - 1) * EnvUnit) \div Len(ret.value)
                  /\ s.a = Attack(s.rel)
                  /\ IsPow15(EnvUnit - s.d, s.rel)
                  /\ s.env = (s.a * s.d) \div EnvUnit
        /\ EnvelopeRange

\* a span of more than 50 samples: one sample inside the attack with a
\* non-zero envelope, and the sample at half the span, where 1 - 0.5^1.5 is
\* 0.647 and (1 - 0.5)^1.5 would be 0.353
C29_Witness ==
    /\ Enveloped /\ Len(ret.value) > 50
    /\ \E k \in DOMAIN ret.value :
          ret.value[k].rel > 0 /\ ret.value[k].rel < EnvUnit \div 50 /\ ret.value[k].env > 0
    /\ \E k \in DOMAIN ret.value : ret.value[k].rel = EnvUnit \div 2 /\ ret.value[k].env = 647
====
